---------------------------- MODULE Spec2Model ----------------------------
(***************************************************************************)
(* Model of the IFCX federation and composition engine                     *)
(* (src/ifc5-viewer/src/ifcx-federation.ts, class IFCXFederation).         *)
(*                                                                         *)
(* Representation.                                                         *)
(*  - A JavaScript string that the code splits at '/' (a path, a reference,*)
(*    a node name) is the non-empty sequence of its '/'-separated segments:*)
(*    "a/W" is <<"a", "W">>, "a" is <<"a">>, "" is <<"">>.  split('/') and *)
(*    join('/') are a bijection between the two, so nothing is lost.       *)
(*  - A null / undefined reference is NullRef, the empty sequence.         *)
(*  - A JavaScript object used as a map (attributes, children, inherits,   *)
(*    schemas) is the sequence of its [k, v] properties in property order  *)
(*    (insertion order: the keys used here are never integer-like).        *)
(*  - A Map is the sequence of its entries in insertion order.             *)
(*  - null (a missing node, an unpublished tree) is Null.                  *)
(***************************************************************************)
EXTENDS Integers, Sequences, FiniteSets, TLC

VARIABLES
    files,             \* this.files: the ordered file list
    composedRoot,      \* this.composedRoot: the published tree, or Null
    compositionNodes,  \* the canonical node table of the last recomposition
    expanded,          \* the expandNode invocations of the last recomposition
    events,            \* the callbacks invoked by the last mutation call, in order
    lastOp,            \* the last mutation call and its arguments
    prevFiles,         \* the file list before the last mutation call
    prevRoot,          \* the published tree before the last mutation call
    roundTrip,         \* set by a show(i) that directly follows a hide(i)
    pending,           \* files still to be loaded (SpecCompose, SpecExpand)
    pc,                \* position of the expansion walk (SpecExpand only)
    stack,             \* call stack of the expansion walk (SpecExpand only)
    steps,             \* steps taken by the addFile call in progress (SpecExpand only)
    snapshot,          \* the array the last getFiles() returned, as its holder reads it now
    snapshotTaken,     \* what that array held when it was returned
    flattened,         \* the last getFlattenedAttributes call since the last mutation
    usda,              \* the input and the output of convertIfcxToUsda (SpecUsda only)
    modeler,           \* the fields of the WallModeler (SpecModeler only)
    gesture,           \* the last event the WallModeler handled, and its fields before
    observer           \* what the composition-changed callback did in the last call

vars == <<files, composedRoot, compositionNodes, expanded, events, lastOp,
          prevFiles, prevRoot, roundTrip, pending, pc, stack, steps,
          snapshot, snapshotTaken, flattened, usda, modeler, gesture, observer>>

Null == [null |-> TRUE]
NullRef == <<>>

-----------------------------------------------------------------------------
(* JavaScript objects as ordered property lists                            *)

Prop(key, value) == [k |-> key, v |-> value]

Keys(obj) == [i \in 1..Len(obj) |-> obj[i].k]

Values(obj) == [i \in 1..Len(obj) |-> obj[i].v]

KeySet(obj) == {obj[i].k : i \in 1..Len(obj)}

HasKey(obj, key) == \E i \in 1..Len(obj) : obj[i].k = key

GetProp(obj, key) == obj[CHOOSE i \in 1..Len(obj) : obj[i].k = key].v

\* obj[key] = value: an existing property keeps its place, a new one goes last.
SetProp(obj, key, value) ==
    IF HasKey(obj, key)
    THEN [i \in 1..Len(obj) |-> IF obj[i].k = key THEN Prop(key, value) ELSE obj[i]]
    ELSE Append(obj, Prop(key, value))

RECURSIVE ObjectAssign(_, _)
\* Object.assign(target, source)
ObjectAssign(target, source) ==
    IF source = <<>> THEN target
    ELSE ObjectAssign(SetProp(target, Head(source).k, Head(source).v), Tail(source))

\* The code tests references with "if (ref)": null and "" are falsy.
Truthy(ref) == ref # NullRef /\ ref # <<"">>


-----------------------------------------------------------------------------
(* Federator and Node Collapser                                            *)

\* A file whose JSON has no "data" array makes federateFiles throw
\* (file.data.data.forEach of undefined).
Iterable(data) == "data" \in DOMAIN data

RECURSIVE FederateSchemas(_, _)
\* files.forEach(file => Object.assign(result.schemas, file.data.schemas))
FederateSchemas(acc, fs) ==
    IF fs = <<>> THEN acc
    ELSE FederateSchemas(ObjectAssign(acc, Head(fs).data.schemas), Tail(fs))

\* { ...entry, __sourceFile: file.name }
TagEntry(entry, file) ==
    [path |-> entry.path, children |-> entry.children, inherits |-> entry.inherits,
     attributes |-> entry.attributes, sourceFile |-> file.name]

RECURSIVE FederateData(_)
\* files.forEach(file => file.data.data.forEach(entry => result.data.push(...)))
FederateData(fs) ==
    IF fs = <<>> THEN <<>>
    ELSE [i \in 1..Len(Head(fs).data.data) |-> TagEntry(Head(fs).data.data[i], Head(fs))]
         \o FederateData(Tail(fs))

FederateFiles(fs) ==
    [schemas |-> FederateSchemas(<<>>, fs), data |-> FederateData(fs)]

\* addToMultiMap(map, key, value)
AddToMultiMap(map, key, value) ==
    IF \E i \in 1..Len(map) : map[i].k = key
    THEN [i \in 1..Len(map) |->
            IF map[i].k = key THEN Prop(key, Append(map[i].v, value)) ELSE map[i]]
    ELSE Append(map, Prop(key, <<value>>))

\* The InputNode built from one entry.
InputNode(entry) ==
    [path |-> entry.path, children |-> entry.children,
     inherits |-> entry.inherits, attributes |-> entry.attributes]

RECURSIVE ToInputNodesFrom(_, _)
ToInputNodesFrom(map, data) ==
    IF data = <<>> THEN map
    ELSE ToInputNodesFrom(AddToMultiMap(map, Head(data).path, InputNode(Head(data))),
                          Tail(data))

ToInputNodes(data) == ToInputNodesFrom(<<>>, data)

\* Whole-entry replacement: the later entry takes the place of the earlier.
CollapseStepReplace(result, node) ==
    [path |-> result.path, children |-> node.children,
     inherits |-> node.inherits, attributes |-> node.attributes]

\* One iteration of the forEach of collapseNodes.
CollapseStep(result, node) ==
    [path |-> result.path,
     children |-> ObjectAssign(result.children, node.children),
     inherits |-> ObjectAssign(result.inherits, node.inherits),
     attributes |-> ObjectAssign(result.attributes, node.attributes)]

RECURSIVE CollapseFrom(_, _)
CollapseFrom(result, nodes) ==
    IF nodes = <<>> THEN result
    ELSE CollapseFrom(CollapseStep(result, Head(nodes)), Tail(nodes))

CollapseNodes(path, nodes) ==
    CollapseFrom([path |-> path, children |-> <<>>, inherits |-> <<>>,
                  attributes |-> <<>>], nodes)

\* The Map path -> canonical node, as the sequence of its values in key order.
ConvertNodes(input) ==
    [i \in 1..Len(input) |-> CollapseNodes(input[i].k, input[i].v)]

\* nodes.get(path)
NodesGet(nodes, path) ==
    IF \E i \in 1..Len(nodes) : nodes[i].path = path
    THEN nodes[CHOOSE i \in 1..Len(nodes) : nodes[i].path = path]
    ELSE Null

-----------------------------------------------------------------------------
(* Reference Resolver / Tree Expander                                      *)

\* path.split('/')[0], as a string
GetHead(path) == <<Head(path)>>

\* parts.shift(); parts.join('/'): the empty string when nothing is left
GetTail(path) == IF Len(path) = 1 THEN <<"">> ELSE Tail(path)

\* path.includes('/')
HasSlash(path) == Len(path) > 1

\* path.split('/').pop() || path
NodeName(path) == IF path[Len(path)] # "" THEN <<path[Len(path)]>> ELSE path

\* node.children.find(c => c.name === childName)
FindChild(node, childName) ==
    IF \E i \in 1..Len(node.children) : node.children[i].name = childName
    THEN LET first == CHOOSE i \in 1..Len(node.children) :
                  /\ node.children[i].name = childName
                  /\ \A j \in 1..(i - 1) : node.children[j].name # childName
         IN node.children[first]
    ELSE Null

\* getNodeByPath without its recursion: the child of the first segment.
GetNodeByPathOneLevel(node, path) ==
    IF path = <<"">> THEN node ELSE FindChild(node, <<Head(path)>>)

RECURSIVE GetNodeByPath(_, _)
GetNodeByPath(node, path) ==
    IF path = <<"">> THEN node
    ELSE LET child == FindChild(node, <<Head(path)>>)
         IN IF child = Null THEN Null
            ELSE IF Len(path) = 1 THEN child
            ELSE GetNodeByPath(child, Tail(path))

\* Object.assign(composedNode.attributes, targetNode.attributes,
\*               composedNode.attributes): the last source is the target object
\* itself, read after targetNode.attributes has been copied onto it.
MergeInherited(own, inherited) ==
    LET afterFirstSource == ObjectAssign(own, inherited)
    IN ObjectAssign(afterFirstSource, afterFirstSource)

\* A guard that also drops every node below the second level.
IncludesOrNested(visited, path) ==
    (\E i \in 1..Len(visited) : visited[i] = path) \/ Len(visited) > 1

\* A guard by depth instead of by path.
IncludesByDepth(visited, path) == Len(visited) > 2

\* The cycle guard left out.
IncludesNever(visited, path) == FALSE

\* visited.includes(path)
Includes(visited, path) == \E i \in 1..Len(visited) : visited[i] = path

\* The subnode a reference addresses inside the expansion of its head.
TargetNode(expandedHead, ref) ==
    IF GetTail(ref) # <<"">> THEN GetNodeByPath(expandedHead, GetTail(ref))
    ELSE expandedHead

\* The child keeps the name it expanded with.
PushChildKeepName(children, targetNode, childName) == Append(children, targetNode)

\* targetNode.name = childName; composedNode.children.push(targetNode)
PushChild(children, targetNode, childName) ==
    Append(children, [targetNode EXCEPT !.name = <<childName>>])

RECURSIVE ExpandNode(_, _, _)
RECURSIVE InheritFrom(_, _, _, _)
RECURSIVE AddChildren(_, _, _, _)

\* Object.values(node.inherits).forEach(...) of expandNode: the attributes of
\* the composed node after the inherit references `refs`.
InheritFrom(attributes, refs, nodes, newVisited) ==
    IF refs = <<>> THEN attributes
    ELSE LET inheritPath == Head(refs)
             inheritedNode == ExpandNode(GetHead(inheritPath), nodes, newVisited)
             targetNode == TargetNode(inheritedNode, inheritPath)
             merged ==
                 IF ~Truthy(inheritPath) THEN attributes
                 ELSE IF inheritedNode = Null THEN attributes
                 ELSE IF targetNode = Null THEN attributes
                 ELSE MergeInherited(attributes, targetNode.attributes)
         IN InheritFrom(merged, Tail(refs), nodes, newVisited)

\* Object.entries(node.children).forEach(...) of expandNode: the children
\* list of the composed node after the children-map entries `entries`.
AddChildren(children, entries, nodes, newVisited) ==
    IF entries = <<>> THEN children
    ELSE LET childName == Head(entries).k
             childPath == Head(entries).v
             childNode == ExpandNode(GetHead(childPath), nodes, newVisited)
             targetNode == TargetNode(childNode, childPath)
             pushed ==
                 IF ~Truthy(childPath) THEN children
                 ELSE IF childNode = Null THEN children
                 ELSE IF targetNode = Null THEN children
                 ELSE PushChild(children, targetNode, childName)
         IN AddChildren(pushed, Tail(entries), nodes, newVisited)

\* The children maps of the canonical nodes a node inherits from.
InheritedChildren(node, nodes) ==
    LET Of(ref) == IF Truthy(ref) /\ NodesGet(nodes, GetHead(ref)) # Null
                   THEN NodesGet(nodes, GetHead(ref)).children ELSE <<>>
        refs == Values(node.inherits)
    IN IF refs = <<>> THEN <<>> ELSE Of(refs[1])

\* An expandNode that also takes over the children of the first inherited node.
ExpandNodeInheritingChildren(path, nodes, visited) ==
    IF Includes(visited, path) THEN Null
    ELSE LET node == NodesGet(nodes, path)
         IN IF node = Null THEN Null
            ELSE LET newVisited == Append(visited, path)
                 IN [name |-> NodeName(path),
                     path |-> path,
                     attributes |->
                         InheritFrom(node.attributes, Values(node.inherits),
                                     nodes, newVisited),
                     children |-> AddChildren(<<>>,
                                     node.children \o InheritedChildren(node, nodes),
                                     nodes, newVisited),
                     sourceFiles |-> <<>>]

ExpandNode(path, nodes, visited) ==
    IF Includes(visited, path) THEN Null
    ELSE LET node == NodesGet(nodes, path)
         IN IF node = Null THEN Null
            ELSE LET newVisited == Append(visited, path)
                 IN [name |-> NodeName(path),
                     path |-> path,
                     attributes |->
                         InheritFrom(node.attributes, Values(node.inherits),
                                     nodes, newVisited),
                     children |-> AddChildren(<<>>, node.children, nodes, newVisited),
                     sourceFiles |-> <<>>]

\* The heads of the truthy reference values of one map.
RefHeads(refs) ==
    {GetHead(refs[i].v) : i \in {j \in 1..Len(refs) : Truthy(refs[j].v)}}

\* childPaths of findRootPaths
ChildPaths(nodes) ==
    UNION {RefHeads(nodes[i].children) \cup RefHeads(nodes[i].inherits)
           : i \in 1..Len(nodes)}

\* The filter of findRootPaths without its test for "/".
IsCandidateRootAnyPath(nodes, path) == path \notin ChildPaths(nodes)

IsCandidateRoot(nodes, path) == path \notin ChildPaths(nodes) /\ ~HasSlash(path)

FindRootPaths(nodes) ==
    LET allPaths == [i \in 1..Len(nodes) |-> nodes[i].path]
        Candidate(path) == IsCandidateRoot(nodes, path)
    IN SelectSeq(allPaths, Candidate)

\* "root node only has inheritance and no children/attributes"
IsRedirect(rootNode) ==
    /\ Len(rootNode.children) = 0
    /\ Len(rootNode.attributes) = 0
    /\ Len(rootNode.inherits) > 0

\* Object.values(rootNode.inherits).filter(p => p)
InheritPaths(rootNode) == SelectSeq(Values(rootNode.inherits), Truthy)

RECURSIVE ExpandAll(_, _)
\* refs.forEach(ref => { child = expandNode(getHead(ref), nodes, schemas, []);
\*                       if (child) artificialRoot.children.push(child) })
ExpandAll(refs, nodes) ==
    IF refs = <<>> THEN <<>>
    ELSE LET child == ExpandNode(GetHead(Head(refs)), nodes, <<>>)
         IN (IF child = Null THEN <<>> ELSE <<child>>) \o ExpandAll(Tail(refs), nodes)

ArtificialRoot(children) ==
    [name |-> <<"Root">>, path |-> <<"">>, attributes |-> <<>>,
     children |-> children, sourceFiles |-> <<>>]

\* What one root candidate contributes to the artificial root (multi-root case).
RootChildren(rootPath, nodes) ==
    LET rootNode == NodesGet(nodes, rootPath)
    IN IF IsRedirect(rootNode) THEN ExpandAll(InheritPaths(rootNode), nodes)
       ELSE ExpandAll(<<rootPath>>, nodes)

RECURSIVE AllRootChildren(_, _)
AllRootChildren(rootPaths, nodes) ==
    IF rootPaths = <<>> THEN <<>>
    ELSE RootChildren(Head(rootPaths), nodes) \o AllRootChildren(Tail(rootPaths), nodes)

\* The special case for a root that only inherits left out.
SingleRootNoRedirect(rootPath, nodes) == ExpandNode(rootPath, nodes, <<>>)

\* The single-root branch of createComposedTree.
SingleRoot(rootPath, nodes) ==
    LET rootNode == NodesGet(nodes, rootPath)
        inheritPaths == InheritPaths(rootNode)
    IN IF IsRedirect(rootNode)
       THEN IF Len(inheritPaths) = 1
            THEN ExpandNode(GetHead(inheritPaths[1]), nodes, <<>>)
            ELSE ArtificialRoot(ExpandAll(inheritPaths, nodes))
       ELSE ExpandNode(rootPath, nodes, <<>>)

CreateComposedTree(nodes) ==
    LET rootPaths == FindRootPaths(nodes)
    IN IF Len(rootPaths) = 0 THEN Null
       ELSE IF Len(rootPaths) = 1 THEN SingleRoot(rootPaths[1], nodes)
       ELSE ArtificialRoot(AllRootChildren(rootPaths, nodes))

-----------------------------------------------------------------------------
(* The expandNode invocations of one composition                           *)

Invocation(path, visited, result) ==
    [path |-> path, visited |-> visited, result |-> result]

\* The truthy reference values through which expandNode recurses.
RecursionRefs(node) ==
    {node.inherits[i].v : i \in {j \in 1..Len(node.inherits) : Truthy(node.inherits[j].v)}}
    \cup
    {node.children[i].v : i \in {j \in 1..Len(node.children) : Truthy(node.children[j].v)}}

RECURSIVE ExpandCalls(_, _, _)
\* expandNode(path, nodes, schemas, visited) and every invocation below it.
ExpandCalls(path, nodes, visited) ==
    LET result == ExpandNode(path, nodes, visited)
    IN {Invocation(path, visited, result)}
       \cup
       (IF result = Null THEN {}
        ELSE UNION {ExpandCalls(GetHead(ref), nodes, Append(visited, path))
                    : ref \in RecursionRefs(NodesGet(nodes, path))})

\* The paths createComposedTree expands with an empty visited list.
TopLevelPaths(nodes) ==
    LET rootPaths == FindRootPaths(nodes)
        Of(rootPath) ==
            LET rootNode == NodesGet(nodes, rootPath)
            IN IF IsRedirect(rootNode)
               THEN {GetHead(rootNode.inherits[i].v)
                     : i \in {j \in 1..Len(rootNode.inherits) : Truthy(rootNode.inherits[j].v)}}
               ELSE {rootPath}
    IN UNION {Of(rootPaths[i]) : i \in 1..Len(rootPaths)}

AllExpandCalls(nodes) ==
    UNION {ExpandCalls(path, nodes, <<>>) : path \in TopLevelPaths(nodes)}

-----------------------------------------------------------------------------
(* Composition Engine                                                      *)

\* this.files.filter(f => f.visible)
VisibleFiles(fs) == SelectSeq(fs, LAMBDA f : f.visible)

\* The try block of recompose throws when federateFiles meets a visible file
\* whose entries cannot be iterated.
PipelineThrows(visibleFiles) ==
    \E i \in 1..Len(visibleFiles) : ~Iterable(visibleFiles[i].data)

\* compositionNodes of recompose (empty when the pipeline is not run).
CanonicalNodes(fs) ==
    LET visibleFiles == VisibleFiles(fs)
    IN IF visibleFiles = <<>> \/ PipelineThrows(visibleFiles) THEN <<>>
       ELSE ConvertNodes(ToInputNodes(FederateFiles(visibleFiles).data))

\* A tolerant pipeline: a file whose entries cannot be iterated is skipped.
ComposeFilesSkippingUnreadable(visibleFiles) ==
    LET readable == SelectSeq(visibleFiles, LAMBDA f : Iterable(f.data))
    IN CreateComposedTree(ConvertNodes(ToInputNodes(FederateFiles(readable).data)))

\* The pipeline of recompose on the visible files: federate, collapse,
\* expand; an exception is caught and leaves null.
ComposeFiles(visibleFiles) ==
    IF PipelineThrows(visibleFiles) THEN Null
    ELSE CreateComposedTree(ConvertNodes(ToInputNodes(FederateFiles(visibleFiles).data)))

\* The filter of recompose left out: hidden files are composed too.
RecomposeAllFiles(fs) == IF fs = <<>> THEN Null ELSE ComposeFiles(fs)

\* An incremental shortcut: keep the tree while the number of visible files
\* is what it was.
RecomposeCached(fs) ==
    IF Len(VisibleFiles(fs)) = Len(VisibleFiles(files)) THEN composedRoot
    ELSE IF VisibleFiles(fs) = <<>> THEN Null
    ELSE ComposeFiles(VisibleFiles(fs))

\* The short circuit for zero visible files left out of recompose: the tree
\* published last stays.
RecomposeKeepsTree(fs) ==
    IF VisibleFiles(fs) = <<>> THEN composedRoot ELSE ComposeFiles(VisibleFiles(fs))

\* recompose(): the value assigned to this.composedRoot.
Recompose(fs) ==
    LET visibleFiles == VisibleFiles(fs)
    IN IF visibleFiles = <<>> THEN Null
       ELSE ComposeFiles(visibleFiles)

\* A flattened value: `${attr} ${postfix}` is the value with its unit, and
\* the value copied as it is has the unit "".
WithUnit(attr, postfix) == [value |-> attr, unit |-> postfix]

\* The postfix flattenAttributes has for a quantity kind ("" for any other).
Postfix(quantityKind) ==
    IF quantityKind = "Length" THEN "m"
    ELSE IF quantityKind = "Volume" THEN "m3"
    ELSE IF quantityKind = "Area" THEN "m2"
    ELSE ""

\* flattenAttributes(attributes, schemas) for attributes whose values are not
\* objects (the values of the files composed here are numbers): a value whose
\* key has a schema with a quantity kind of Length, Volume or Area gets the
\* unit, any other value is copied. The value of a schema property stands for
\* schema.value.quantityKind.
FlattenAttributes(attributes, schemas) ==
    [i \in 1..Len(attributes) |->
        LET attrName == attributes[i].k
            attr == attributes[i].v
        IN IF HasKey(schemas, attrName) /\ Postfix(GetProp(schemas, attrName)) # ""
           THEN Prop(attrName, WithUnit(attr, Postfix(GetProp(schemas, attrName))))
           ELSE Prop(attrName, WithUnit(attr, ""))]

\* this.files.reduce((acc, file) => ({ ...acc, ...file.data.schemas }), {})
ReduceSchemas(fs) == FederateSchemas(<<>>, fs)

\* getFlattenedAttributes(node): the value returned.
FlattenedAttributesOf(node) == FlattenAttributes(node.attributes, ReduceSchemas(files))

NoQuery == [asked |-> FALSE]

\* A WallModeler as its constructor leaves it.
NewModeler ==
    [isModeling |-> FALSE, startPoint |-> Null, previewLine |-> Null,
     createdWalls |-> <<>>, wallCounter |-> 0]

\* A callback that returns from each of its invocations.
Returning == [first |-> FALSE, second |-> FALSE, escaped |-> FALSE]

NoGesture == [event |-> "new", point |-> Null, before |-> NewModeler, notified |-> 0]

NoConversion == [called |-> FALSE, ifcx |-> [data |-> <<>>], by |-> "", lines |-> <<>>]

\* onFilesChanged invoked before recompose.
NotificationsFilesFirst(root) ==
    <<[cb |-> "onFilesChanged", arg |-> Null],
      [cb |-> "onCompositionChanged", arg |-> root]>>

\* The callbacks one in-range mutation invokes, in order.
Notifications(root) ==
    <<[cb |-> "onCompositionChanged", arg |-> root],
      [cb |-> "onFilesChanged", arg |-> Null]>>

-----------------------------------------------------------------------------
(* Inputs of the file-list specification                                   *)

MaxFiles == 3

Entry(path, attributes, children, inherits) ==
    [path |-> path, attributes |-> attributes, children |-> children,
     inherits |-> inherits]

\* File1 and File2 of the end-to-end example, a root that only inherits, and a
\* file whose entry list is missing.
File1Data ==
    [schemas |-> <<Prop("h", "Length")>>,
     data |-> <<Entry(<<"root1">>, <<>>, <<Prop("Wall", <<"wall1">>)>>, <<>>),
                Entry(<<"wall1">>, <<Prop("h", 3)>>, <<>>, <<>>)>>]

File2Data ==
    [schemas |-> <<Prop("h", "Area"), Prop("w", "Length")>>,
     data |-> <<Entry(<<"wall1">>, <<Prop("h", 5), Prop("w", 2)>>, <<>>, <<>>)>>]

SiteData ==
    [schemas |-> <<>>,
     data |-> <<Entry(<<"site">>, <<>>, <<>>, <<Prop("base", <<"root1">>)>>)>>]

BrokenData == [schemas |-> <<>>]

Catalogue ==
    {[name |-> "File1", data |-> File1Data],
     [name |-> "File2", data |-> File2Data],
     [name |-> "Site", data |-> SiteData],
     [name |-> "Broken", data |-> BrokenData]}

\* Indices offered to the mutations: every in-range index and one on each side.
Indices == -1..Len(files)

-----------------------------------------------------------------------------
(* File list (indices are the code's, from 0; positions are from 1)        *)

InRange(fs, index) == index >= 0 /\ index < Len(fs)

\* this.files.forEach((file, i) => file.index = i)
UpdateIndices(fs) == [i \in 1..Len(fs) |-> [fs[i] EXCEPT !.index = i - 1]]

\* array.splice(index, 1)
SpliceOut(fs, index) == SubSeq(fs, 1, index) \o SubSeq(fs, index + 2, Len(fs))

\* array.splice(index, 0, item)
SpliceIn(fs, index, item) ==
    SubSeq(fs, 1, index) \o <<item>> \o SubSeq(fs, index + 1, Len(fs))

\* unshift in place of push.
AddedFileListFront(fs, name, data) ==
    <<[name |-> name, data |-> data, visible |-> TRUE, index |-> Len(fs)]>> \o fs

\* addFile: const index = this.files.length; this.files.push(file)
AddedFileList(fs, name, data) ==
    Append(fs, [name |-> name, data |-> data, visible |-> TRUE, index |-> Len(fs)])

\* The "Update indices" line left out.
RemovedFileListStaleIndices(fs, index) == SpliceOut(fs, index)

RemovedFileList(fs, index) == UpdateIndices(SpliceOut(fs, index))

MovedFileList(fs, fromIndex, toIndex) ==
    UpdateIndices(SpliceIn(SpliceOut(fs, fromIndex), toIndex, fs[fromIndex + 1]))

\* visible = !visible
VisibilityFileListToggle(fs, index, visible) ==
    [fs EXCEPT ![index + 1].visible = ~@]

\* A file shown again is taken out and put back at the end of the list.
VisibilityFileListReappend(fs, index, visible) ==
    IF visible
    THEN UpdateIndices(Append(SpliceOut(fs, index), [fs[index + 1] EXCEPT !.visible = TRUE]))
    ELSE [fs EXCEPT ![index + 1].visible = visible]

VisibilityFileList(fs, index, visible) ==
    [fs EXCEPT ![index + 1].visible = visible]

Call(op, index, toIndex, visible, ok) ==
    [op |-> op, index |-> index, toIndex |-> toIndex, visible |-> visible, ok |-> ok]

NoRoundTrip == [active |-> FALSE, before |-> Null]

\* What the holder of an array returned by getFiles() reads once the file
\* list is `fs`. The array is a new array of the same IFCXFile objects: an
\* element that is still in the list (a listed file is identified by its name,
\* which the calls made here keep unique) reads the fields of the listed file;
\* an element that was removed from the list keeps what it had.
Aliased(returned, fs) ==
    [i \in 1..Len(returned) |->
        IF returned[i].listed /\ \E j \in 1..Len(fs) : fs[j].name = returned[i].name
        THEN LET file == fs[CHOOSE j \in 1..Len(fs) : fs[j].name = returned[i].name]
             IN [name |-> file.name, visible |-> file.visible, index |-> file.index,
                 listed |-> TRUE]
        ELSE [returned[i] EXCEPT !.listed = FALSE]]

\* The effect shared by the four mutations once the list is `fs`:
\* this.recompose(); this.callbacks.onFilesChanged?.()
Publish(fs, call) ==
    /\ files' = fs
    /\ snapshot' = Aliased(snapshot, fs)
    /\ composedRoot' = Recompose(fs)
    /\ compositionNodes' = CanonicalNodes(fs)
    /\ expanded' = AllExpandCalls(CanonicalNodes(fs))
    /\ events' = Notifications(Recompose(fs))
    /\ lastOp' = call
    /\ prevFiles' = files
    /\ prevRoot' = composedRoot
    /\ flattened' = NoQuery
    /\ UNCHANGED <<pc, stack, steps, snapshotTaken, usda, modeler, gesture, observer>>

\* A call whose bounds check fails does nothing.
Ignore(call) ==
    /\ events' = <<>>
    /\ lastOp' = call
    /\ prevFiles' = files
    /\ prevRoot' = composedRoot
    /\ UNCHANGED <<files, composedRoot, compositionNodes, expanded, pc, stack, steps,
                   snapshot, snapshotTaken, flattened, usda, modeler, gesture, observer>>

AddFile(name, data) ==
    /\ Publish(AddedFileList(files, name, data), Call("addFile", Len(files), 0, TRUE, TRUE))
    /\ roundTrip' = NoRoundTrip

\* removeFile without its bounds check.
RemoveFileUnchecked(index) ==
    /\ Publish(RemovedFileList(files, index), Call("removeFile", index, 0, FALSE, TRUE))
    /\ roundTrip' = NoRoundTrip

RemoveFile(index) ==
    /\ IF InRange(files, index)
       THEN Publish(RemovedFileList(files, index), Call("removeFile", index, 0, FALSE, TRUE))
       ELSE Ignore(Call("removeFile", index, 0, FALSE, FALSE))
    /\ roundTrip' = NoRoundTrip

MoveFile(fromIndex, toIndex) ==
    /\ IF InRange(files, fromIndex) /\ InRange(files, toIndex)
       THEN Publish(MovedFileList(files, fromIndex, toIndex),
                    Call("moveFile", fromIndex, toIndex, FALSE, TRUE))
       ELSE Ignore(Call("moveFile", fromIndex, toIndex, FALSE, FALSE))
    /\ roundTrip' = NoRoundTrip

\* lastOp hid the visible file at `index`.
JustHid(index) ==
    /\ lastOp.op = "setFileVisibility" /\ lastOp.ok
    /\ lastOp.index = index /\ ~lastOp.visible
    /\ prevFiles[index + 1].visible

SetFileVisibility(index, visible) ==
    /\ IF InRange(files, index)
       THEN Publish(VisibilityFileList(files, index, visible),
                    Call("setFileVisibility", index, 0, visible, TRUE))
       ELSE Ignore(Call("setFileVisibility", index, 0, visible, FALSE))
    /\ roundTrip' = IF InRange(files, index) /\ visible /\ JustHid(index)
                    THEN [active |-> TRUE, before |-> prevRoot]
                    ELSE NoRoundTrip

Init ==
    /\ files = <<>>
    /\ composedRoot = Null
    /\ compositionNodes = <<>>
    /\ expanded = {}
    /\ events = <<>>
    /\ lastOp = Call("new", 0, 0, FALSE, TRUE)
    /\ prevFiles = <<>>
    /\ prevRoot = Null
    /\ roundTrip = NoRoundTrip
    /\ pending = <<>>
    /\ pc = "idle"
    /\ stack = <<>>
    /\ steps = 0
    /\ snapshot = <<>>
    /\ snapshotTaken = <<>>
    /\ flattened = NoQuery
    /\ usda = NoConversion
    /\ modeler = NewModeler
    /\ gesture = NoGesture
    /\ observer = Returning

\* The calls of the user interface. Each catalogue file is loaded at most once
\* at a time (it may be removed and loaded again).
Next ==
    \/ \E item \in Catalogue :
          /\ Len(files) < MaxFiles
          /\ \A i \in 1..Len(files) : files[i].name # item.name
          /\ AddFile(item.name, item.data)
          /\ UNCHANGED pending
    \/ \E index \in Indices : RemoveFile(index) /\ UNCHANGED pending
    \/ \E fromIndex \in Indices, toIndex \in Indices :
          MoveFile(fromIndex, toIndex) /\ UNCHANGED pending
    \/ \E index \in Indices, visible \in BOOLEAN :
          SetFileVisibility(index, visible) /\ UNCHANGED pending

Spec == Init /\ [][Next]_vars

-----------------------------------------------------------------------------
(* The file list with getFiles() (specification SpecSnapshot)              *)

MaxSnapshotFiles == 2

\* The two files of the end-to-end example.
SnapshotCatalogue == {item \in Catalogue : item.name \in {"File1", "File2"}}

\* getFiles(): return [...this.files]. The array is new; its elements are the
\* IFCXFile objects of the list.
GetFiles ==
    /\ snapshot' = [i \in 1..Len(files) |->
                        [name |-> files[i].name, visible |-> files[i].visible,
                         index |-> files[i].index, listed |-> TRUE]]
    /\ snapshotTaken' = [i \in 1..Len(files) |->
                             [name |-> files[i].name, visible |-> files[i].visible,
                              index |-> files[i].index]]
    /\ UNCHANGED <<files, composedRoot, compositionNodes, expanded, events, lastOp,
                   prevFiles, prevRoot, roundTrip, pending, pc, stack, steps, flattened, usda, modeler, gesture, observer>>

\* The calls of the user interface and getFiles(); the array returned by the
\* last getFiles() call is followed.
NextSnapshot ==
    \/ \E item \in SnapshotCatalogue :
          /\ Len(files) < MaxSnapshotFiles
          /\ \A i \in 1..Len(files) : files[i].name # item.name
          /\ AddFile(item.name, item.data)
          /\ UNCHANGED pending
    \/ \E index \in Indices : RemoveFile(index) /\ UNCHANGED pending
    \/ \E fromIndex \in Indices, toIndex \in Indices :
          MoveFile(fromIndex, toIndex) /\ UNCHANGED pending
    \/ \E index \in Indices, visible \in BOOLEAN :
          SetFileVisibility(index, visible) /\ UNCHANGED pending
    \/ GetFiles

SpecSnapshot == Init /\ [][NextSnapshot]_vars

-----------------------------------------------------------------------------
(* Composition of generated files (specification SpecCompose)              *)

MaxEntries == 3

ComposePaths == {<<"r">>, <<"a">>, <<"b">>}

\* The references an entry of `path` may hold: to a node, or to the child W
\* inside the expansion of a. r is referenced by nothing; b refers only back
\* to a (a itself covers the self-reference).
ComposeRefs(path) ==
    IF path = <<"b">> THEN {<<"a">>} ELSE {<<"a">>, <<"b">>, <<"a", "W">>}

ComposeAttributes ==
    {<<Prop("c", 1)>>, <<Prop("c", 2), Prop("h", 3)>>}

\* The slot under which an entry holds a reference.
SlotOf(ref) == IF ref = <<"a">> THEN "V" ELSE "W"

\* Entries with one facet each; entries of one path combine in the collapse.
EntryUniverse ==
    {Entry(path, attributes, <<>>, <<>>)
        : path \in ComposePaths, attributes \in ComposeAttributes}
    \cup UNION {{Entry(path, <<>>, <<Prop(SlotOf(ref), ref)>>, <<>>)
                    : ref \in ComposeRefs(path)} : path \in ComposePaths}
    \cup UNION {{Entry(path, <<>>, <<>>, <<Prop(SlotOf(ref), ref)>>)
                    : ref \in ComposeRefs(path)} : path \in ComposePaths}

\* Two files: "A" with all entries but the last, then "B" with the last.
ComposeInputs ==
    {<<[name |-> "A",
        data |-> [schemas |-> <<>>, data |-> SubSeq(entries, 1, MaxEntries - 1)]],
       [name |-> "B",
        data |-> [schemas |-> <<>>, data |-> SubSeq(entries, MaxEntries, MaxEntries)]]>>
     : entries \in [1..MaxEntries -> EntryUniverse]}
    \cup {<<[name |-> "File1", data |-> File1Data],
             [name |-> "File2", data |-> File2Data]>>}

InitCompose ==
    /\ files = <<>>
    /\ composedRoot = Null
    /\ compositionNodes = <<>>
    /\ expanded = {}
    /\ events = <<>>
    /\ lastOp = Call("new", 0, 0, FALSE, TRUE)
    /\ prevFiles = <<>>
    /\ prevRoot = Null
    /\ roundTrip = NoRoundTrip
    /\ pending \in ComposeInputs
    /\ pc = "idle"
    /\ stack = <<>>
    /\ steps = 0
    /\ snapshot = <<>>
    /\ snapshotTaken = <<>>
    /\ flattened = NoQuery
    /\ usda = NoConversion
    /\ modeler = NewModeler
    /\ gesture = NoGesture
    /\ observer = Returning

\* The next file is loaded.
LoadNext ==
    /\ pending # <<>>
    /\ AddFile(Head(pending).name, Head(pending).data)
    /\ pending' = Tail(pending)

NextCompose == LoadNext

SpecCompose == InitCompose /\ [][NextCompose]_vars

-----------------------------------------------------------------------------
(* Composition of files with multiple inheritance (specification           *)
(* SpecInherit)                                                            *)

MaxInheritEntries == 4

\* Entries of r, a and b: attributes for a and b, one attribute for r (a
\* root with attributes is expanded, not redirected), and for r one inherit
\* (from a under V, from b under W) or both, in either map order.
InheritUniverse ==
    {Entry(path, attributes, <<>>, <<>>)
        : path \in {<<"a">>, <<"b">>}, attributes \in ComposeAttributes}
    \cup {Entry(<<"r">>, <<Prop("w", 4)>>, <<>>, <<>>)}
    \cup {Entry(<<"r">>, <<>>, <<>>, inherits)
            : inherits \in {<<Prop("V", <<"a">>)>>,
                            <<Prop("W", <<"b">>)>>,
                            <<Prop("V", <<"a">>), Prop("W", <<"b">>)>>,
                            <<Prop("W", <<"b">>), Prop("V", <<"a">>)>>}}

\* Two files: "A" with all entries but the last, then "B" with the last.
InheritInputs ==
    {<<[name |-> "A",
        data |-> [schemas |-> <<>>,
                  data |-> SubSeq(entries, 1, MaxInheritEntries - 1)]],
       [name |-> "B",
        data |-> [schemas |-> <<>>,
                  data |-> SubSeq(entries, MaxInheritEntries, MaxInheritEntries)]]>>
     : entries \in [1..MaxInheritEntries -> InheritUniverse]}

InitInherit ==
    /\ files = <<>>
    /\ composedRoot = Null
    /\ compositionNodes = <<>>
    /\ expanded = {}
    /\ events = <<>>
    /\ lastOp = Call("new", 0, 0, FALSE, TRUE)
    /\ prevFiles = <<>>
    /\ prevRoot = Null
    /\ roundTrip = NoRoundTrip
    /\ pending \in InheritInputs
    /\ pc = "idle"
    /\ stack = <<>>
    /\ steps = 0
    /\ snapshot = <<>>
    /\ snapshotTaken = <<>>
    /\ flattened = NoQuery
    /\ usda = NoConversion
    /\ modeler = NewModeler
    /\ gesture = NoGesture
    /\ observer = Returning

SpecInherit == InitInherit /\ [][NextCompose]_vars

-----------------------------------------------------------------------------
(* Composition over references with a tail (specification SpecTail)        *)

MaxTailEntries == 4

\* The references of r: into the chain a -W-> b -U-> d, to a name no child
\* has, and into a head that has no entry.
TailRefs == {<<"a", "W", "U">>, <<"a", "W", "Z">>, <<"c", "W">>}

\* r holds a child reference, alone or next to an inherit reference; a has
\* the child W = b, b the child U = d, and d has attributes.
TailUniverse ==
    {Entry(<<"r">>, <<>>, <<Prop("X", ref)>>, <<>>) : ref \in TailRefs}
    \cup {Entry(<<"r">>, <<>>, <<Prop("X", <<"a", "W", "U">>)>>, <<Prop("Y", ref)>>)
            : ref \in TailRefs}
    \cup {Entry(<<"a">>, <<>>, <<Prop("W", <<"b">>)>>, <<>>),
          Entry(<<"b">>, <<>>, <<Prop("U", <<"d">>)>>, <<>>),
          Entry(<<"d">>, <<Prop("c", 1)>>, <<>>, <<>>)}

\* Two files: "A" with all entries but the last, then "B" with the last.
TailInputs ==
    {<<[name |-> "A",
        data |-> [schemas |-> <<>>,
                  data |-> SubSeq(entries, 1, MaxTailEntries - 1)]],
       [name |-> "B",
        data |-> [schemas |-> <<>>,
                  data |-> SubSeq(entries, MaxTailEntries, MaxTailEntries)]]>>
     : entries \in [1..MaxTailEntries -> TailUniverse]}

\* The fields of a new IFCXFederation and of the objects next to it.
Constructed ==
    /\ files = <<>>
    /\ composedRoot = Null
    /\ compositionNodes = <<>>
    /\ expanded = {}
    /\ events = <<>>
    /\ lastOp = Call("new", 0, 0, FALSE, TRUE)
    /\ prevFiles = <<>>
    /\ prevRoot = Null
    /\ roundTrip = NoRoundTrip
    /\ pc = "idle"
    /\ stack = <<>>
    /\ steps = 0
    /\ snapshot = <<>>
    /\ snapshotTaken = <<>>
    /\ flattened = NoQuery
    /\ usda = NoConversion
    /\ modeler = NewModeler
    /\ gesture = NoGesture
    /\ observer = Returning

InitTail == Constructed /\ pending \in TailInputs

SpecTail == InitTail /\ [][NextCompose]_vars

-----------------------------------------------------------------------------
(* Composition over cycles and shared nodes (specification SpecCycle)      *)

MaxCycleEntries == 4

\* r holds a, or a and b, as children; a and b have attributes and either
\* inherit from each other, hold each other as a child, or hold d as a child.
CycleUniverse ==
    {Entry(<<"r">>, <<>>, <<Prop("V", <<"a">>)>>, <<>>),
     Entry(<<"r">>, <<>>, <<Prop("V", <<"a">>), Prop("W", <<"b">>)>>, <<>>),
     Entry(<<"a">>, <<Prop("c", 1)>>, <<>>, <<Prop("W", <<"b">>)>>),
     Entry(<<"a">>, <<Prop("c", 1)>>, <<Prop("W", <<"b">>)>>, <<>>),
     Entry(<<"a">>, <<Prop("c", 1)>>, <<Prop("D", <<"d">>)>>, <<>>),
     Entry(<<"b">>, <<Prop("c", 2), Prop("h", 3)>>, <<>>, <<Prop("V", <<"a">>)>>),
     Entry(<<"b">>, <<Prop("c", 2), Prop("h", 3)>>, <<Prop("V", <<"a">>)>>, <<>>),
     Entry(<<"b">>, <<Prop("c", 2), Prop("h", 3)>>, <<Prop("D", <<"d">>)>>, <<>>),
     Entry(<<"d">>, <<Prop("c", 1)>>, <<>>, <<>>)}

\* Two files: "A" with all entries but the last, then "B" with the last.
CycleInputs ==
    {<<[name |-> "A",
        data |-> [schemas |-> <<>>,
                  data |-> SubSeq(entries, 1, MaxCycleEntries - 1)]],
       [name |-> "B",
        data |-> [schemas |-> <<>>,
                  data |-> SubSeq(entries, MaxCycleEntries, MaxCycleEntries)]]>>
     : entries \in [1..MaxCycleEntries -> CycleUniverse]}

InitCycle == Constructed /\ pending \in CycleInputs

SpecCycle == InitCycle /\ [][NextCompose]_vars

-----------------------------------------------------------------------------
(* Composition over entries with a compound path (specification            *)
(* SpecCompound)                                                           *)

MaxCompoundEntries == 4

\* Entries of the path "a/W", with the attribute x, a child or an inherit
\* reference; r refers to "a/W" as a child or as an inherit; a has attributes
\* or the child W = b; b has attributes.
CompoundUniverse ==
    {Entry(<<"a", "W">>, <<Prop("x", 9)>>, <<>>, <<>>),
     Entry(<<"a", "W">>, <<>>, <<Prop("V", <<"a">>)>>, <<>>),
     Entry(<<"a", "W">>, <<>>, <<>>, <<Prop("W", <<"b">>)>>),
     Entry(<<"r">>, <<>>, <<Prop("W", <<"a", "W">>)>>, <<>>),
     Entry(<<"r">>, <<>>, <<>>, <<Prop("W", <<"a", "W">>)>>),
     Entry(<<"a">>, <<Prop("c", 1)>>, <<>>, <<>>),
     Entry(<<"a">>, <<>>, <<Prop("W", <<"b">>)>>, <<>>),
     Entry(<<"b">>, <<Prop("c", 2), Prop("h", 3)>>, <<>>, <<>>)}

\* Two files: "A" with all entries but the last, then "B" with the last.
CompoundInputs ==
    {<<[name |-> "A",
        data |-> [schemas |-> <<>>,
                  data |-> SubSeq(entries, 1, MaxCompoundEntries - 1)]],
       [name |-> "B",
        data |-> [schemas |-> <<>>,
                  data |-> SubSeq(entries, MaxCompoundEntries, MaxCompoundEntries)]]>>
     : entries \in [1..MaxCompoundEntries -> CompoundUniverse]}

InitCompound == Constructed /\ pending \in CompoundInputs

SpecCompound == InitCompound /\ [][NextCompose]_vars

-----------------------------------------------------------------------------
(* The recursion of expandNode, call by call (specification SpecExpand)    *)
(*                                                                         *)
(* addFile is split into the push of the file, the calls and returns of    *)
(* expandNode under createComposedTree, and the publication of the result. *)
(* The bottom frame of the stack is createComposedTree, every other frame  *)
(* an expandNode invocation in progress.                                   *)

MaxWalkEntries == 3

\* Depth the stack of the model may reach. An expansion nests at most as
\* deep as there are canonical nodes, so a stack this deep is not needed.
MaxStack == 6

WalkUniverse ==
    {Entry(path, <<Prop("c", 1)>>, <<>>, <<>>) : path \in {<<"a">>, <<"b">>}}
    \cup UNION {{Entry(path, <<>>, <<Prop(SlotOf(ref), ref)>>, <<>>)
                    : ref \in ComposeRefs(path)} : path \in ComposePaths}
    \cup UNION {{Entry(path, <<>>, <<>>, <<Prop(SlotOf(ref), ref)>>)
                    : ref \in ComposeRefs(path)} : path \in ComposePaths}

\* One file holding all the entries.
WalkInputs ==
    {<<[name |-> "A", data |-> [schemas |-> <<>>, data |-> entries]]>>
     : entries \in [1..MaxWalkEntries -> WalkUniverse]}

\* The frame of createComposedTree: the paths it expands with an empty visited
\* list, whether it collects them under an artificial root, and what came back.
RootsFrame(nodes) ==
    LET rootPaths == FindRootPaths(nodes)
        rootNode == NodesGet(nodes, rootPaths[1])
        Contribution(rootPath) ==
            IF IsRedirect(NodesGet(nodes, rootPath))
            THEN [i \in 1..Len(InheritPaths(NodesGet(nodes, rootPath))) |->
                    GetHead(InheritPaths(NodesGet(nodes, rootPath))[i])]
            ELSE <<rootPath>>
        Flatten[i \in 0..Len(rootPaths)] ==
            IF i = 0 THEN <<>> ELSE Flatten[i - 1] \o Contribution(rootPaths[i])
        single == /\ Len(rootPaths) = 1
                  /\ IsRedirect(rootNode) => Len(InheritPaths(rootNode)) = 1
    IN [phase |-> "roots", found |-> Len(rootPaths) > 0, artificial |-> ~single,
        todo |-> Flatten[Len(rootPaths)], idx |-> 1, children |-> <<>>,
        result |-> Null]

\* The frame of expandNode(path, nodes, schemas, visited) once it has created
\* composedNode.
ExpandFrame(path, nodes, visited) ==
    [phase |-> "inherits", path |-> path, visited |-> visited, idx |-> 1,
     node |-> [name |-> NodeName(path), path |-> path,
               attributes |-> NodesGet(nodes, path).attributes,
               children |-> <<>>, sourceFiles |-> <<>>]]

\* The two early returns of expandNode.
ReturnsEarly(path, nodes, visited) ==
    Includes(visited, path) \/ NodesGet(nodes, path) = Null

TopFrame == stack[Len(stack)]

\* The references the top frame iterates over in its phase.
FrameRefs(frame) ==
    IF frame.phase = "roots" THEN frame.todo
    ELSE IF frame.phase = "inherits"
         THEN Values(NodesGet(compositionNodes, frame.path).inherits)
         ELSE Values(NodesGet(compositionNodes, frame.path).children)

HasCurrentRef(frame) == frame.idx <= Len(FrameRefs(frame))

CurrentRef(frame) == FrameRefs(frame)[frame.idx]

\* The visited list the frame passes down.
FrameVisited(frame) ==
    IF frame.phase = "roots" THEN <<>> ELSE Append(frame.visited, frame.path)

\* The frame after the expansion of its current reference returned `result`
\* (Null when the reference was skipped or the callee returned early).
Delivered(frame, result) ==
    LET ref == CurrentRef(frame)
        target == IF result = Null THEN Null ELSE TargetNode(result, ref)
        next == frame.idx + 1
    IN IF frame.phase = "roots"
       THEN [frame EXCEPT !.idx = next,
                          !.result = result,
                          !.children = IF result = Null THEN @ ELSE Append(@, result)]
       ELSE IF target = Null THEN [frame EXCEPT !.idx = next]
       ELSE IF frame.phase = "inherits"
       THEN [frame EXCEPT !.idx = next,
                          !.node.attributes = MergeInherited(@, target.attributes)]
       ELSE [frame EXCEPT !.idx = next,
                          !.node.children =
                              PushChild(@, target,
                                        NodesGet(compositionNodes, frame.path).children[frame.idx].k)]

ReplaceTop(frame) == [stack EXCEPT ![Len(stack)] = frame]

WalkFrame ==
    /\ steps' = steps + 1
    /\ UNCHANGED <<files, composedRoot, compositionNodes, expanded, events,
                   lastOp, prevFiles, prevRoot, roundTrip, pending,
                   snapshot, snapshotTaken, flattened, usda, modeler, gesture, observer>>

\* addFile pushes the file and recompose runs up to createComposedTree.
BeginLoad ==
    /\ pc = "idle"
    /\ pending # <<>>
    /\ files' = AddedFileList(files, Head(pending).name, Head(pending).data)
    /\ pending' = Tail(pending)
    /\ compositionNodes' = CanonicalNodes(files')
    /\ stack' = <<RootsFrame(compositionNodes')>>
    /\ pc' = "expanding"
    /\ lastOp' = Call("addFile", Len(files), 0, TRUE, TRUE)
    /\ prevFiles' = files
    /\ prevRoot' = composedRoot
    /\ events' = <<>>
    /\ roundTrip' = NoRoundTrip
    /\ steps' = 0
    /\ UNCHANGED <<composedRoot, expanded, snapshot, snapshotTaken, flattened, usda, modeler, gesture, observer>>

\* The current reference is expanded: expandNode is entered and creates
\* composedNode.
WalkCall ==
    /\ pc = "expanding"
    /\ HasCurrentRef(TopFrame)
    /\ Truthy(CurrentRef(TopFrame))
    /\ ~ReturnsEarly(GetHead(CurrentRef(TopFrame)), compositionNodes, FrameVisited(TopFrame))
    /\ Len(stack) < MaxStack
    /\ stack' = Append(stack, ExpandFrame(GetHead(CurrentRef(TopFrame)), compositionNodes,
                                          FrameVisited(TopFrame)))
    /\ pc' = pc
    /\ WalkFrame

\* The current reference is falsy, or its expansion returns null at once
\* (circular reference, node not found).
WalkSkip ==
    /\ pc = "expanding"
    /\ HasCurrentRef(TopFrame)
    /\ \/ ~Truthy(CurrentRef(TopFrame))
       \/ ReturnsEarly(GetHead(CurrentRef(TopFrame)), compositionNodes, FrameVisited(TopFrame))
    /\ stack' = ReplaceTop(Delivered(TopFrame, Null))
    /\ pc' = pc
    /\ WalkFrame

\* The inherits loop of the top invocation is over; its children loop begins.
WalkChildren ==
    /\ pc = "expanding"
    /\ TopFrame.phase = "inherits"
    /\ ~HasCurrentRef(TopFrame)
    /\ stack' = ReplaceTop([TopFrame EXCEPT !.phase = "children", !.idx = 1])
    /\ pc' = pc
    /\ WalkFrame

\* The top invocation returns composedNode to its caller.
WalkReturn ==
    /\ pc = "expanding"
    /\ TopFrame.phase = "children"
    /\ ~HasCurrentRef(TopFrame)
    /\ stack' = [SubSeq(stack, 1, Len(stack) - 1) EXCEPT
                    ![Len(stack) - 1] = Delivered(stack[Len(stack) - 1], TopFrame.node)]
    /\ pc' = pc
    /\ WalkFrame

\* createComposedTree returns; recompose publishes the tree and addFile
\* notifies and returns.
WalkFinish ==
    /\ pc = "expanding"
    /\ TopFrame.phase = "roots"
    /\ ~HasCurrentRef(TopFrame)
    /\ composedRoot' = IF ~TopFrame.found THEN Null
                       ELSE IF TopFrame.artificial THEN ArtificialRoot(TopFrame.children)
                       ELSE TopFrame.result
    /\ steps' = steps + 1
    /\ events' = Notifications(composedRoot')
    /\ stack' = <<>>
    /\ pc' = "idle"
    /\ UNCHANGED <<files, compositionNodes, expanded, lastOp, prevFiles, prevRoot,
                   roundTrip, pending, snapshot, snapshotTaken, flattened, usda, modeler, gesture, observer>>

\* The file to load is chosen.
ChooseInput ==
    /\ pc = "start"
    /\ pending' \in WalkInputs
    /\ pc' = "idle"
    /\ UNCHANGED <<files, composedRoot, compositionNodes, expanded, events, lastOp,
                   prevFiles, prevRoot, roundTrip, stack, steps, snapshot, snapshotTaken, flattened, usda, modeler, gesture, observer>>

InitExpand ==
    /\ files = <<>>
    /\ composedRoot = Null
    /\ compositionNodes = <<>>
    /\ expanded = {}
    /\ events = <<>>
    /\ lastOp = Call("new", 0, 0, FALSE, TRUE)
    /\ prevFiles = <<>>
    /\ prevRoot = Null
    /\ roundTrip = NoRoundTrip
    /\ pending = <<>>
    /\ pc = "start"
    /\ stack = <<>>
    /\ steps = 0
    /\ snapshot = <<>>
    /\ snapshotTaken = <<>>
    /\ flattened = NoQuery
    /\ usda = NoConversion
    /\ modeler = NewModeler
    /\ gesture = NoGesture
    /\ observer = Returning

\* The steps of one addFile call.
Walk ==
    \/ BeginLoad
    \/ WalkCall
    \/ WalkSkip
    \/ WalkChildren
    \/ WalkReturn
    \/ WalkFinish

NextExpand == ChooseInput \/ Walk

\* The engine is single-threaded and synchronous: a call that can take its
\* next step takes it.
SpecExpand == InitExpand /\ [][NextExpand]_vars /\ WF_vars(Walk)

\* Largest number of references one canonical node holds (at least 1).
MaxRefs(nodes) ==
    LET counts == {Len(nodes[i].inherits) + Len(nodes[i].children) : i \in 1..Len(nodes)}
                  \cup {1}
    IN CHOOSE m \in counts : \A c \in counts : c <= m

RECURSIVE GeometricSum(_, _)
\* 1 + r + ... + r^(n-1)
GeometricSum(r, n) == IF n = 0 THEN 0 ELSE 1 + r * GeometricSum(r, n - 1)

\* Steps one addFile call can take: every invocation is a chain of distinct
\* canonical paths below one of the top-level paths, and it takes a call, a
\* return, a change of loop and at most one skip per reference.
StepBound(nodes) ==
    LET top == Len(RootsFrame(nodes).todo)
        invocations == top * GeometricSum(MaxRefs(nodes), Len(nodes))
    IN invocations * (MaxRefs(nodes) + 3) + top + 1


-----------------------------------------------------------------------------
(* Trees                                                                   *)

RECURSIVE TreeNodes(_)
\* Every node of a published tree (none for Null).
TreeNodes(tree) ==
    IF tree = Null THEN {}
    ELSE {tree} \cup UNION {TreeNodes(tree.children[i]) : i \in 1..Len(tree.children)}

TreePaths(tree) == {n.path : n \in TreeNodes(tree)}

RECURSIVE AddAll(_, _)
\* A new federation to which the files `fs` are added one after the other.
AddAll(acc, fs) ==
    IF fs = <<>> THEN acc
    ELSE AddAll(AddedFileList(acc, Head(fs).name, Head(fs).data), Tail(fs))

-----------------------------------------------------------------------------
(* The file list with getFlattenedAttributes (specification SpecQuery)     *)

MaxQueryFiles == 2

\* getFlattenedAttributes(node), called for a node of the published tree.
GetFlattenedAttributes(node) ==
    /\ flattened' = [asked |-> TRUE, node |-> node, result |-> FlattenedAttributesOf(node)]
    /\ UNCHANGED <<files, composedRoot, compositionNodes, expanded, events, lastOp,
                   prevFiles, prevRoot, roundTrip, pending, pc, stack, steps,
                   snapshot, snapshotTaken, usda, modeler, gesture, observer>>

\* The calls of the user interface on File1 and File2, whose schemas give
\* attribute h two quantity kinds, and getFlattenedAttributes.
NextQuery ==
    \/ \E item \in SnapshotCatalogue :
          /\ Len(files) < MaxQueryFiles
          /\ \A i \in 1..Len(files) : files[i].name # item.name
          /\ AddFile(item.name, item.data)
          /\ UNCHANGED pending
    \/ \E index \in Indices : RemoveFile(index) /\ UNCHANGED pending
    \/ \E fromIndex \in Indices, toIndex \in Indices :
          MoveFile(fromIndex, toIndex) /\ UNCHANGED pending
    \/ \E index \in Indices, visible \in BOOLEAN :
          SetFileVisibility(index, visible) /\ UNCHANGED pending
    \/ \E node \in TreeNodes(composedRoot) : GetFlattenedAttributes(node)

SpecQuery == Init /\ [][NextQuery]_vars

-----------------------------------------------------------------------------
(* The IFCX to USDA converters (specification SpecUsda)                    *)
(*                                                                         *)
(* convertIfcxToUsda exists three times: twice in                          *)
(* src/prototype-viewer/convert.js (lines 4-43 and 62-118) and once in     *)
(* src/ifc5-viewer/src/ifcx-to-usda.ts. The second and the third are the   *)
(* same program. A string is the sequence of its characters; the output    *)
(* is the sequence of its lines, a line being the pieces its template      *)
(* literal is put together from.                                           *)

MaxUsdaEntries == 3

\* sanitized characters: name.replace(/[^a-zA-Z0-9_]/g, '_')
NameChars == {"a", "1", "_"}

Digits == {"1"}

RECURSIVE ReplaceOthers(_)
ReplaceOthers(name) ==
    IF name = <<>> THEN <<>>
    ELSE <<IF Head(name) \in NameChars THEN Head(name) ELSE "_">> \o ReplaceOthers(Tail(name))

\* sanitizeName of the first definition of convert.js
SanitizeNameFirst(name) == ReplaceOthers(name)

\* sanitizeName of the second definition of convert.js and of ifcx-to-usda.ts
SanitizeName(name) ==
    LET sanitized == ReplaceOthers(name)
        prefixed == IF sanitized # <<>> /\ Head(sanitized) \in Digits
                    THEN <<"_">> \o sanitized ELSE sanitized
    IN IF prefixed = <<>> THEN <<"_", "d", "e", "f", "a", "u", "l", "t">> ELSE prefixed

\* entry.attributes && entry.attributes[key]
Carries(entry, key) == entry.attributes[key].present /\ entry.attributes[key].truthy

\* getPrimType of the first definition of convert.js
GetPrimTypeFirst(entry) ==
    IF Carries(entry, "mesh") THEN "UsdGeom:Mesh"
    ELSE IF Carries(entry, "basiscurves") THEN "UsdGeom:BasisCurves"
    ELSE "Xform"

\* getPrimType of the second definition of convert.js and of ifcx-to-usda.ts
GetPrimType(entry) ==
    IF Carries(entry, "mesh") THEN "Mesh"
    ELSE IF Carries(entry, "basiscurves") THEN "BasisCurves"
    ELSE "Xform"

\* The decimal digits of a counter (a counter stays below 10 here).
CounterChars(counter) == <<<<"1", "2", "3", "4", "5", "6", "7", "8", "9">>[counter]>>

\* `${name}_${counter}`
Numbered(name, counter) == name \o <<"_">> \o CounterChars(counter)

RECURSIVE UniqueName(_, _, _)
\* while (usedNames.has(uniqueName)) { uniqueName = `${name}_${counter}`; counter++ }
UniqueName(name, counter, usedNames) ==
    LET uniqueName == IF counter = 0 THEN name ELSE Numbered(name, counter)
    IN IF uniqueName \in usedNames THEN UniqueName(name, counter + 1, usedNames)
       ELSE uniqueName

\* The lines of one prim: the def line, the lines of the mesh, the closing
\* brace.
PrimLines(primType, name, entry) ==
    LET mesh == entry.attributes["mesh"]
    IN <<[kind |-> "def", type |-> primType, name |-> name]>>
       \o (IF Carries(entry, "mesh") /\ mesh.hasIndices
           THEN <<[kind |-> "faceVertexIndices", values |-> mesh.faceVertexIndices]>>
           ELSE <<>>)
       \o (IF Carries(entry, "mesh") /\ mesh.hasPoints
           THEN <<[kind |-> "points", values |-> mesh.points]>>
           ELSE <<>>)
       \o <<[kind |-> "close"]>>

HeaderLine == [kind |-> "header", text |-> "#usda 1.0"]

RECURSIVE BuildPrimsFirst(_)
\* The first definition: no name is changed to make it unique.
BuildPrimsFirst(data) ==
    IF data = <<>> THEN <<>>
    ELSE PrimLines(GetPrimTypeFirst(Head(data)), SanitizeNameFirst(Head(data).path), Head(data))
         \o BuildPrimsFirst(Tail(data))

RECURSIVE BuildPrims(_, _)
\* The second definition and ifcx-to-usda.ts.
BuildPrims(data, usedNames) ==
    IF data = <<>> THEN <<>>
    ELSE LET uniqueName == UniqueName(SanitizeName(Head(data).path), 0, usedNames)
         IN PrimLines(GetPrimType(Head(data)), uniqueName, Head(data))
            \o BuildPrims(Tail(data), usedNames \cup {uniqueName})

\* convertIfcxToUsda of convert.js, first definition: the lines joined.
ConvertIfcxToUsdaFirst(ifcx) == <<HeaderLine>> \o BuildPrimsFirst(ifcx.data)

\* convertIfcxToUsda of convert.js, second definition, and of ifcx-to-usda.ts.
ConvertIfcxToUsda(ifcx) == <<HeaderLine>> \o BuildPrims(ifcx.data, {})

\* Values of an attribute: absent, null, an empty object, a mesh with indices
\* and points.
Absent == [present |-> FALSE, truthy |-> FALSE, hasIndices |-> FALSE,
           faceVertexIndices |-> <<>>, hasPoints |-> FALSE, points |-> <<>>]

NullValue == [Absent EXCEPT !.present = TRUE]

EmptyObject == [NullValue EXCEPT !.truthy = TRUE]

Triangle == [EmptyObject EXCEPT !.hasIndices = TRUE, !.faceVertexIndices = <<0, 1, 2>>,
                                !.hasPoints = TRUE,
                                !.points = <<<<0, 0, 0>>, <<1, 0, 0>>, <<0, 1, 0>>>>]

UsdaAttributes ==
    {[mesh |-> mesh, basiscurves |-> curves] :
        mesh \in {Absent, NullValue, EmptyObject, Triangle}, curves \in {Absent, EmptyObject}}
    \ {[mesh |-> EmptyObject, basiscurves |-> EmptyObject],
        [mesh |-> NullValue, basiscurves |-> Absent]}

\* Paths "a", "a_1", "1/" and "".
UsdaPaths == {<<"a">>, <<"a", "_", "1">>, <<"1", "/">>, <<>>}

UsdaEntries == {[path |-> path, attributes |-> attributes]
                   : path \in UsdaPaths, attributes \in UsdaAttributes}

UsdaInputs == {[data |-> data] : data \in [1..MaxUsdaEntries -> UsdaEntries]}

InitUsda ==
    /\ files = <<>>
    /\ composedRoot = Null
    /\ compositionNodes = <<>>
    /\ expanded = {}
    /\ events = <<>>
    /\ lastOp = Call("new", 0, 0, FALSE, TRUE)
    /\ prevFiles = <<>>
    /\ prevRoot = Null
    /\ roundTrip = NoRoundTrip
    /\ pending = <<>>
    /\ pc = "idle"
    /\ stack = <<>>
    /\ steps = 0
    /\ snapshot = <<>>
    /\ snapshotTaken = <<>>
    /\ flattened = NoQuery
    /\ usda \in {[NoConversion EXCEPT !.ifcx = ifcx] : ifcx \in UsdaInputs}
    /\ modeler = NewModeler
    /\ gesture = NoGesture
    /\ observer = Returning

\* One of the converters is run on the input.
Converted(by, lines) ==
    /\ ~usda.called
    /\ usda' = [usda EXCEPT !.called = TRUE, !.by = by, !.lines = lines]
    /\ UNCHANGED <<files, composedRoot, compositionNodes, expanded, events, lastOp,
                   prevFiles, prevRoot, roundTrip, pending, pc, stack, steps,
                   snapshot, snapshotTaken, flattened, modeler, gesture, observer>>

ConvertPrototypeFirst == Converted("convert.js:4", ConvertIfcxToUsdaFirst(usda.ifcx))

ConvertPrototype == Converted("convert.js:62", ConvertIfcxToUsda(usda.ifcx))

ConvertViewer == Converted("ifcx-to-usda.ts", ConvertIfcxToUsda(usda.ifcx))

NextUsda == ConvertPrototypeFirst \/ ConvertPrototype \/ ConvertViewer

SpecUsda == InitUsda /\ [][NextUsda]_vars

-----------------------------------------------------------------------------
(* The wall modeler (specification SpecModeler)                            *)
(*                                                                         *)
(* src/ifc5-viewer/src/wall-modeler.ts, class WallModeler. A mouse event   *)
(* is given by the point in which its ray meets the ground plane; the      *)
(* vector the handlers test with "if (!intersectPoint)" is an object and   *)
(* never falsy, so that return is never taken. A wall is its name counter  *)
(* and its two points: the identifiers createWall draws at random and the  *)
(* box it computes are left out.                                           *)

MaxWalls == 2

\* Ground points: WallPoint {x, y, z: 0}.
Points == {[x |-> x, y |-> 0, z |-> 0] : x \in 0..1}

\* The handled event is recorded with the fields it found.
Handled(event, point, notified) ==
    /\ gesture' = [event |-> event, point |-> point, before |-> modeler,
                   notified |-> notified]
    /\ UNCHANGED <<files, composedRoot, compositionNodes, expanded, events, lastOp,
                   prevFiles, prevRoot, roundTrip, pending, pc, stack, steps,
                   snapshot, snapshotTaken, flattened, usda, observer>>

\* createWall(startPoint, endPoint): the wall is stored and the callback
\* registered with the constructor is notified; then clearPreview() and
\* this.startPoint = null of onMouseClick.
WallPlaced(clickPoint) ==
    [modeler EXCEPT
        !.createdWalls = Append(@, [name |-> modeler.wallCounter,
                                    start |-> modeler.startPoint, end |-> clickPoint]),
        !.wallCounter = @ + 1,
        !.previewLine = Null,
        !.startPoint = Null]

\* The first click: this.startPoint = clickPoint; createPreviewLine(clickPoint)
StartPlaced(clickPoint) ==
    [modeler EXCEPT !.startPoint = clickPoint,
                    !.previewLine = [from |-> clickPoint, to |-> clickPoint]]

OnMouseClick(clickPoint) ==
    IF ~modeler.isModeling
    THEN modeler' = modeler /\ Handled("click", clickPoint, 0)
    ELSE IF modeler.startPoint = Null
    THEN modeler' = StartPlaced(clickPoint) /\ Handled("click", clickPoint, 0)
    ELSE modeler' = WallPlaced(clickPoint) /\ Handled("click", clickPoint, 1)

\* onMouseMove: the preview line follows the pointer.
OnMouseMove(point) ==
    /\ modeler' = IF modeler.isModeling /\ modeler.startPoint # Null
                       /\ modeler.previewLine # Null
                   THEN [modeler EXCEPT !.previewLine =
                            [from |-> modeler.startPoint, to |-> point]]
                   ELSE modeler
    /\ Handled("move", point, 0)

StartModeling ==
    /\ modeler' = [modeler EXCEPT !.isModeling = TRUE]
    /\ Handled("startModeling", Null, 0)

\* The fields after stopModeling(): clearPreview(); this.startPoint = null
Stopped == [modeler EXCEPT !.isModeling = FALSE, !.previewLine = Null, !.startPoint = Null]

\* stopModeling without its last assignment.
StopModelingKeepsStart ==
    /\ modeler' = [modeler EXCEPT !.isModeling = FALSE, !.previewLine = Null]
    /\ Handled("stopModeling", Null, 0)

StopModeling ==
    /\ modeler' = Stopped
    /\ Handled("stopModeling", Null, 0)

Dispose ==
    /\ modeler' = [Stopped EXCEPT !.createdWalls = <<>>, !.wallCounter = 0]
    /\ Handled("dispose", Null, 0)

\* The events of the canvas and the calls of the user interface; no more than
\* MaxWalls walls are placed before a dispose().
NextModeler ==
    \/ \E clickPoint \in Points :
          /\ Len(modeler.createdWalls) < MaxWalls
          /\ OnMouseClick(clickPoint)
    \/ \E point \in Points : OnMouseMove(point)
    \/ StartModeling
    \/ StopModeling
    \/ Dispose

SpecModeler == Init /\ [][NextModeler]_vars

-----------------------------------------------------------------------------
(* Callbacks that raise (specification SpecObserver)                       *)
(*                                                                         *)
(* The callbacks are the caller's functions. recompose invokes             *)
(* onCompositionChanged inside its try block, so an exception of the       *)
(* callback is caught like one of the pipeline: the catch block assigns    *)
(* null and invokes the callback again, outside any try. An observer is    *)
(* given by what the callback does at its first and at its second          *)
(* invocation during one recompose.                                        *)

MaxObserverFiles == 2

Observers == [first : BOOLEAN, second : BOOLEAN]

ObserverCatalogue == {item \in Catalogue : item.name \in {"File1", "File2", "Broken"}}

\* The try block of recompose is left by an exception of the pipeline.
TryBlockThrows(fs) ==
    VisibleFiles(fs) # <<>> /\ PipelineThrows(VisibleFiles(fs))

\* this.composedRoot when recompose is over or left by an exception.
RecomposeObserved(fs, obs) ==
    IF TryBlockThrows(fs) THEN Null
    ELSE IF obs.first THEN Null
    ELSE Recompose(fs)

\* recompose is left by an exception of the callback invoked in its catch
\* block; the mutation then does not reach onFilesChanged.
Escapes(fs, obs) ==
    IF TryBlockThrows(fs) THEN obs.first ELSE obs.first /\ obs.second

\* The callbacks one in-range mutation invokes, in order.
NotificationsObserved(fs, obs) ==
    (IF TryBlockThrows(fs)
     THEN <<[cb |-> "onCompositionChanged", arg |-> Null]>>
     ELSE IF obs.first
     THEN <<[cb |-> "onCompositionChanged", arg |-> Recompose(fs)],
            [cb |-> "onCompositionChanged", arg |-> Null]>>
     ELSE <<[cb |-> "onCompositionChanged", arg |-> Recompose(fs)]>>)
    \o (IF Escapes(fs, obs) THEN <<>>
        ELSE <<[cb |-> "onFilesChanged", arg |-> Null]>>)

\* An in-range mutation once the list is `fs`, with the observer `obs`.
PublishObserved(fs, call, obs) ==
    /\ files' = fs
    /\ snapshot' = Aliased(snapshot, fs)
    /\ composedRoot' = RecomposeObserved(fs, obs)
    /\ compositionNodes' = CanonicalNodes(fs)
    /\ expanded' = AllExpandCalls(CanonicalNodes(fs))
    /\ events' = NotificationsObserved(fs, obs)
    /\ lastOp' = call
    /\ prevFiles' = files
    /\ prevRoot' = composedRoot
    /\ flattened' = NoQuery
    /\ roundTrip' = NoRoundTrip
    /\ observer' = [first |-> obs.first, second |-> obs.second,
                    escaped |-> Escapes(fs, obs)]
    /\ UNCHANGED <<pending, pc, stack, steps, snapshotTaken, usda, modeler, gesture>>

\* A call whose bounds check fails invokes nothing.
IgnoreObserved(call) ==
    /\ Ignore(call)
    /\ roundTrip' = NoRoundTrip
    /\ UNCHANGED pending

AddFileObserved(name, data, obs) ==
    PublishObserved(AddedFileList(files, name, data),
                    Call("addFile", Len(files), 0, TRUE, TRUE), obs)

RemoveFileObserved(index, obs) ==
    IF InRange(files, index)
    THEN PublishObserved(RemovedFileList(files, index),
                         Call("removeFile", index, 0, FALSE, TRUE), obs)
    ELSE IgnoreObserved(Call("removeFile", index, 0, FALSE, FALSE))

MoveFileObserved(fromIndex, toIndex, obs) ==
    IF InRange(files, fromIndex) /\ InRange(files, toIndex)
    THEN PublishObserved(MovedFileList(files, fromIndex, toIndex),
                         Call("moveFile", fromIndex, toIndex, FALSE, TRUE), obs)
    ELSE IgnoreObserved(Call("moveFile", fromIndex, toIndex, FALSE, FALSE))

SetFileVisibilityObserved(index, visible, obs) ==
    IF InRange(files, index)
    THEN PublishObserved(VisibilityFileList(files, index, visible),
                         Call("setFileVisibility", index, 0, visible, TRUE), obs)
    ELSE IgnoreObserved(Call("setFileVisibility", index, 0, visible, FALSE))

\* The calls of the user interface on File1, File2 and the file without an
\* entry list, with a callback that may raise.
NextObserver ==
    \/ \E item \in ObserverCatalogue, obs \in Observers :
          /\ Len(files) < MaxObserverFiles
          /\ \A i \in 1..Len(files) : files[i].name # item.name
          /\ AddFileObserved(item.name, item.data, obs)
    \/ \E index \in Indices, obs \in Observers : RemoveFileObserved(index, obs)
    \/ \E fromIndex \in Indices, toIndex \in Indices, obs \in Observers :
          MoveFileObserved(fromIndex, toIndex, obs)
    \/ \E index \in Indices, visible \in BOOLEAN, obs \in Observers :
          SetFileVisibilityObserved(index, visible, obs)

SpecObserver == Init /\ [][NextObserver]_vars

-----------------------------------------------------------------------------
(* Claims about the file list (specification Spec)                         *)

\* C4: after any sequence of addFile, removeFile, moveFile and
\* setFileVisibility calls the published tree equals the tree a new federation
\* publishes after the currently visible files are added to it in their
\* current order.
C4_HistoryIndependence ==
    LET fresh == AddAll(<<>>, VisibleFiles(files))
    IN composedRoot = IF fresh = <<>> THEN Null ELSE ComposeFiles(fresh)

\* C4 witness: a list that was reordered and has a hidden file, with a tree.
C4_Witness ==
    /\ lastOp.op = "moveFile" /\ lastOp.ok /\ lastOp.index # lastOp.toIndex
    /\ \E i \in 1..Len(files) : ~files[i].visible
    /\ composedRoot # Null
    /\ composedRoot # prevRoot

\* The last call was in range and asked for what the list already was.
UnchangedCall ==
    /\ lastOp.ok
    /\ \/ lastOp.op = "moveFile" /\ lastOp.index = lastOp.toIndex
       \/ /\ lastOp.op = "setFileVisibility"
          /\ prevFiles[lastOp.index + 1].visible = lastOp.visible

\* C5: a recomposition with an unchanged file list and visibility set
\* (moveFile(i, i), setFileVisibility(i, current flag)) publishes a tree
\* structurally identical to the one published before.
C5_Idempotence == UnchangedCall => composedRoot = prevRoot

\* C5 witness: such a call on a list whose composition is a tree with children.
C5_Witness ==
    /\ UnchangedCall
    /\ lastOp.op = "setFileVisibility" /\ lastOp.visible
    /\ composedRoot # Null
    /\ Len(composedRoot.children) > 0

\* C6: hiding a visible file and showing it again publishes the tree that
\* was published before the file was hidden.
C6_VisibilityRoundTrip == roundTrip.active => composedRoot = roundTrip.before

\* C6 witness: a round trip in which hiding the file had changed the tree.
C6_Witness ==
    /\ roundTrip.active
    /\ composedRoot # Null
    /\ prevRoot # composedRoot

\* C10: every file at position i of the list has index i.
C10_IndexInvariant == \A i \in 1..Len(files) : files[i].index = i - 1

\* C10 witness: a file other than the last was removed from a list, and one
\* was moved forward.
C10_Witness ==
    /\ lastOp.ok
    /\ \/ lastOp.op = "removeFile" /\ lastOp.index < Len(files)
       \/ lastOp.op = "moveFile" /\ lastOp.index > lastOp.toIndex
    /\ Len(files) >= 2

\* An index the file list did not have when the last call was made.
OutOfRange(index) == index < 0 \/ index >= Len(prevFiles)

\* The last call was made with an index out of range.
OutOfRangeCall ==
    \/ lastOp.op \in {"removeFile", "setFileVisibility"} /\ OutOfRange(lastOp.index)
    \/ lastOp.op = "moveFile" /\ (OutOfRange(lastOp.index) \/ OutOfRange(lastOp.toIndex))

\* The last call was a mutation made with indices in range.
InRangeCall ==
    /\ lastOp.op \in {"addFile", "removeFile", "moveFile", "setFileVisibility"}
    /\ ~OutOfRangeCall

\* C11: a removeFile, setFileVisibility or moveFile call with an index out of
\* range leaves the file list and the published tree as they were and invokes
\* no callback.
C11_OutOfRangeIgnored ==
    OutOfRangeCall =>
        /\ files = prevFiles
        /\ composedRoot = prevRoot
        /\ events = <<>>

\* C11 witness: a moveFile from a valid index to one past the end, on a list
\* of two files with a hidden file and a published tree.
C11_Witness ==
    /\ lastOp.op = "moveFile"
    /\ ~OutOfRange(lastOp.index) /\ lastOp.toIndex = Len(prevFiles)
    /\ Len(files) = 2
    /\ \E i \in 1..Len(files) : ~files[i].visible
    /\ composedRoot # Null

\* The tree a recomposition of the file list publishes.
TreeOfVisibleFiles ==
    IF VisibleFiles(files) = <<>> THEN Null ELSE ComposeFiles(VisibleFiles(files))

\* C12: addFile appends one file with visible = true and index = the previous
\* file count, leaves the files already present as they were, and recomposes.
C12_AddFileAppends ==
    lastOp.op = "addFile" =>
        /\ Len(files) = Len(prevFiles) + 1
        /\ SubSeq(files, 1, Len(prevFiles)) = prevFiles
        /\ files[Len(files)].visible
        /\ files[Len(files)].index = Len(prevFiles)
        /\ composedRoot = TreeOfVisibleFiles
        /\ events # <<>> /\ events[1] = [cb |-> "onCompositionChanged", arg |-> composedRoot]

\* C12 witness: a file added to a list of two of which one is hidden, and the
\* tree changed.
C12_Witness ==
    /\ lastOp.op = "addFile"
    /\ Len(prevFiles) = 2
    /\ \E i \in 1..Len(prevFiles) : ~prevFiles[i].visible
    /\ composedRoot # prevRoot /\ composedRoot # Null

\* C13: after an in-range mutation that leaves no visible file the published
\* tree is null and the composition-changed callback was invoked with null.
C13_ZeroVisibleFiles ==
    (InRangeCall /\ \A i \in 1..Len(files) : ~files[i].visible) =>
        /\ composedRoot = Null
        /\ \E e \in 1..Len(events) :
              events[e] = [cb |-> "onCompositionChanged", arg |-> Null]

\* C13 witness: the last visible file of two was hidden while a tree was
\* published.
C13_Witness ==
    /\ lastOp.op = "setFileVisibility" /\ InRangeCall
    /\ Len(files) = 2
    /\ \A i \in 1..Len(files) : ~files[i].visible
    /\ prevRoot # Null

\* C13, removal case reached: the only file was removed while a tree was
\* published.
C13_LastFileRemoved ==
    lastOp.op = "removeFile" /\ InRangeCall /\ files = <<>> /\ prevRoot # Null

\* The list `seq` without the file at `index`.
Without(seq, index) ==
    [k \in 1..(Len(seq) - 1) |-> IF k <= index THEN seq[k] ELSE seq[k + 1]]

\* The list `seq` with `file` put at `index`.
Inserted(seq, index, file) ==
    [k \in 1..(Len(seq) + 1) |->
        IF k <= index THEN seq[k] ELSE IF k = index + 1 THEN file ELSE seq[k - 1]]

\* The list with every index field set to the position.
Renumbered(seq) == [k \in 1..Len(seq) |-> [seq[k] EXCEPT !.index = k - 1]]

\* The file list the last in-range call asks for.
ListAfterCall ==
    IF lastOp.op = "addFile"
    THEN Inserted(prevFiles, Len(prevFiles),
                  [files[Len(files)] EXCEPT !.visible = TRUE, !.index = Len(prevFiles)])
    ELSE IF lastOp.op = "removeFile"
    THEN Renumbered(Without(prevFiles, lastOp.index))
    ELSE IF lastOp.op = "moveFile"
    THEN Renumbered(Inserted(Without(prevFiles, lastOp.index), lastOp.toIndex,
                             prevFiles[lastOp.index + 1]))
    ELSE [prevFiles EXCEPT ![lastOp.index + 1].visible = lastOp.visible]

\* A visible file whose entry list cannot be iterated: federateFiles throws.
PipelineRaised ==
    \E i \in 1..Len(files) : files[i].visible /\ "data" \notin DOMAIN files[i].data

\* C14: when the pipeline raises during an in-range mutation, the call
\* returns (the files-changed callback is reached), the published tree is null,
\* the composition-changed callback is invoked with null, and the file list is
\* the one the call asks for.
C14_FailToNull ==
    (InRangeCall /\ PipelineRaised) =>
        /\ composedRoot = Null
        /\ events = <<[cb |-> "onCompositionChanged", arg |-> Null],
                      [cb |-> "onFilesChanged", arg |-> Null]>>
        /\ files = ListAfterCall

\* C14 witness: the file that cannot be iterated was added to a list with a
\* published tree.
C14_Witness ==
    /\ lastOp.op = "addFile" /\ PipelineRaised
    /\ "data" \notin DOMAIN files[Len(files)].data
    /\ prevRoot # Null

\* C14, other mutations reached: a move on a list with such a file visible.
C14_MoveReached ==
    /\ lastOp.op = "moveFile" /\ InRangeCall /\ lastOp.index # lastOp.toIndex
    /\ PipelineRaised /\ Len(files) = 3

\* The file list is the one the call asks for after every in-range call.
FileListFollowsCall == InRangeCall => files = ListAfterCall

\* C16: every in-range addFile, removeFile, moveFile and setFileVisibility
\* call invokes the composition-changed callback once, with the published
\* tree, and then the files-changed callback once, whether the tree is null
\* or not.
C16_CallbackProtocol ==
    InRangeCall =>
        events = <<[cb |-> "onCompositionChanged", arg |-> composedRoot],
                   [cb |-> "onFilesChanged", arg |-> Null]>>

\* C16 witness: an in-range removal after which the published tree is null
\* although a file is visible.
C16_Witness ==
    /\ lastOp.op = "removeFile" /\ InRangeCall
    /\ composedRoot = Null /\ prevRoot # Null
    /\ \E i \in 1..Len(files) : files[i].visible

\* C16, tree case reached: an in-range visibility call publishing a tree.
C16_TreeReached ==
    lastOp.op = "setFileVisibility" /\ InRangeCall /\ composedRoot # Null

\* The file has an entry with this path.
DefinesPath(file, path) ==
    /\ Iterable(file.data)
    /\ \E i \in 1..Len(file.data.data) : file.data.data[i].path = path

\* The last call hid the visible file at lastOp.index, which was the only
\* visible file defining the root candidate `path`.
HidOnlyDefinerOfRoot(path) ==
    /\ lastOp.op = "setFileVisibility" /\ lastOp.ok /\ ~lastOp.visible
    /\ prevFiles[lastOp.index + 1].visible
    /\ DefinesPath(prevFiles[lastOp.index + 1], path)
    /\ \A i \in 1..Len(prevFiles) :
          (i # lastOp.index + 1 /\ prevFiles[i].visible) => ~DefinesPath(prevFiles[i], path)
    /\ \E i \in 1..Len(FindRootPaths(CanonicalNodes(prevFiles))) :
          FindRootPaths(CanonicalNodes(prevFiles))[i] = path

\* The nodes with this path in a tree, and everything below them.
SubtreeUnder(tree, path) ==
    UNION {TreeNodes(n) : n \in {m \in TreeNodes(tree) : m.path = path}}

\* Every path that has an entry in some file of the list.
PathsOfFiles(fs) ==
    UNION {{fs[i].data.data[j].path : j \in 1..Len(fs[i].data.data)}
           : i \in {k \in 1..Len(fs) : Iterable(fs[k].data)}}

\* C7 as claimed: after the only visible file defining the root entry P is
\* hidden, the next tree has no node with path P and no node (identified by
\* its path) of the subtree that was composed under P.
C7_HidingRemovesSubtree ==
    \A path \in PathsOfFiles(prevFiles) :
        HidOnlyDefinerOfRoot(path) =>
            /\ path \notin TreePaths(composedRoot)
            /\ \A n \in SubtreeUnder(prevRoot, path) : n.path \notin TreePaths(composedRoot)

\* C7 amended: the next tree has no node with path P, and no node of the
\* subtree that was composed under P whose path has no entry in a file that
\* is still visible.
C7_HidingRemovesOwnNodes ==
    \A path \in PathsOfFiles(prevFiles) :
        HidOnlyDefinerOfRoot(path) =>
            /\ path \notin TreePaths(composedRoot)
            /\ \A n \in SubtreeUnder(prevRoot, path) :
                  n.path \notin PathsOfFiles(VisibleFiles(files))
                      => n.path \notin TreePaths(composedRoot)

\* C7 witness: the root with a subtree was composed, its only file was hidden,
\* and a tree is still published.
C7_Witness ==
    \E path \in PathsOfFiles(prevFiles) :
        /\ HidOnlyDefinerOfRoot(path)
        /\ Cardinality(SubtreeUnder(prevRoot, path)) > 1
        /\ composedRoot # Null

-----------------------------------------------------------------------------
(* Claims about one composition (specification SpecCompose)                *)

\* The canonical node of a composed node.
CanonicalOf(composed) == NodesGet(compositionNodes, composed.path)

\* The composed nodes that stand for a canonical node (all but the artificial
\* root).
ComposedNodes == {n \in TreeNodes(composedRoot) : CanonicalOf(n) # Null}

\* C1 as claimed: every composed node has its canonical node's own value for
\* every attribute key that node defines (own attributes win over inherited
\* ones).
C1_OwnAttributesWin ==
    \A n \in ComposedNodes :
        \A k \in KeySet(CanonicalOf(n).attributes) :
            /\ HasKey(n.attributes, k)
            /\ GetProp(n.attributes, k) = GetProp(CanonicalOf(n).attributes, k)

\* The raw entries of the visible files in federation order: file order, then
\* in-file array order.
RECURSIVE EntriesInOrder(_)
EntriesInOrder(fs) ==
    IF fs = <<>> THEN <<>> ELSE Head(fs).data.data \o EntriesInOrder(Tail(fs))

Facets == {"attributes", "children", "inherits"}

AllKeys(entries) ==
    UNION {KeySet(entries[i][f]) : i \in 1..Len(entries), f \in Facets}

\* The positions of the entries of `path` that define key k of facet f.
Defining(entries, path, f, k) ==
    {i \in 1..Len(entries) : entries[i].path = path /\ HasKey(entries[i][f], k)}

Latest(positions) == CHOOSE i \in positions : \A j \in positions : j <= i

\* C2: the canonical node of a path has, for each key of attributes,
\* children and inherits, the value of the latest entry in federation order
\* that defines the key, and it has exactly the keys its entries define.
C2_OverrideLaw ==
    LET entries == EntriesInOrder(VisibleFiles(files))
    IN /\ {compositionNodes[i].path : i \in 1..Len(compositionNodes)}
              = {entries[i].path : i \in 1..Len(entries)}
       /\ \A n \in 1..Len(compositionNodes) : \A f \in Facets : \A k \in AllKeys(entries) :
              LET node == compositionNodes[n]
                  defining == Defining(entries, node.path, f, k)
              IN /\ HasKey(node[f], k) <=> defining # {}
                 /\ defining # {} =>
                        GetProp(node[f], k) = GetProp(entries[Latest(defining)][f], k)

\* C2 witness: file B overrides one attribute of a path that file A defines
\* and leaves another attribute of A in place.
C2_Witness ==
    /\ Len(files) = 2
    /\ \E i \in 1..Len(files[1].data.data), j \in 1..Len(files[2].data.data) :
          LET early == files[1].data.data[i]
              late == files[2].data.data[j]
          IN /\ early.path = late.path
             /\ \E k \in KeySet(early.attributes) \cap KeySet(late.attributes) :
                    GetProp(early.attributes, k) # GetProp(late.attributes, k)
             /\ KeySet(early.attributes) \ KeySet(late.attributes) # {}
             /\ Cardinality(KeySet(NodesGet(compositionNodes, early.path).attributes)) = 2

\* The only root candidate has no attributes, no children and exactly one
\* inherit reference, which has no tail.
SoleRedirectTo(target) ==
    LET rootPaths == FindRootPaths(compositionNodes)
        rootNode == NodesGet(compositionNodes, rootPaths[1])
    IN /\ Len(rootPaths) = 1
       /\ Len(rootNode.attributes) = 0
       /\ Len(rootNode.children) = 0
       /\ Len(rootNode.inherits) = 1
       /\ rootNode.inherits[1].v = target
       /\ Truthy(target) /\ ~HasSlash(target)

\* C8: then the published root is the expansion of the inherited path W
\* itself: its path is W, and the redirecting node is nowhere in the tree.
C8_RootCollapse ==
    \A target \in ComposePaths \cup {<<"root1">>} :
        SoleRedirectTo(target) =>
            /\ \E call \in expanded :
                  /\ call.path = target /\ call.visited = <<>>
                  /\ composedRoot = call.result
            /\ composedRoot # Null =>
                  /\ composedRoot.path = target
                  /\ composedRoot.name = target
                  /\ FindRootPaths(compositionNodes)[1] \notin TreePaths(composedRoot)
                  /\ \A k \in KeySet(NodesGet(compositionNodes, target).attributes) :
                        HasKey(composedRoot.attributes, k)

\* C8 witness: such a root, redirected to a node that has attributes.
C8_Witness ==
    \E target \in ComposePaths :
        /\ SoleRedirectTo(target)
        /\ composedRoot # Null
        /\ Len(composedRoot.attributes) > 0

\* The value the invocation expandNode(path, ..., visited) returned.
Returned(path, visited) ==
    (CHOOSE call \in expanded : call.path = path /\ call.visited = visited).result

\* What a children reference of an invocation resolved to: the returned
\* expansion of its head, or the subnode its tail addresses; Null when the
\* reference did not resolve.
ResolvedChild(call, ref) ==
    IF ~Truthy(ref) THEN Null
    ELSE LET head == Returned(GetHead(ref), Append(call.visited, call.path))
         IN IF head = Null THEN Null ELSE TargetNode(head, ref)

\* The children-map entries of an invocation's node whose reference resolved.
ResolvingEntries(call) ==
    SelectSeq(NodesGet(compositionNodes, call.path).children,
              LAMBDA e : ResolvedChild(call, e.v) # Null)

\* The tree of the end-to-end example.
ExampleTree ==
    [name |-> <<"root1">>, path |-> <<"root1">>, attributes |-> <<>>,
     sourceFiles |-> <<>>,
     children |-> <<[name |-> <<"Wall">>, path |-> <<"wall1">>,
                     attributes |-> <<Prop("h", 5), Prop("w", 2)>>,
                     children |-> <<>>, sourceFiles |-> <<>>]>>]

ExampleLoaded ==
    /\ Len(files) = 2
    /\ files[1].data = File1Data
    /\ files[2].data = File2Data

\* C9: a composed node has one child per children-map entry whose reference
\* resolves, in map order; the child has the slot key as its name and the
\* path, attributes and children of what the reference resolved to. The
\* end-to-end example composes to root1 with the one child Wall.
C9_ChildrenResolution ==
    /\ \A call \in expanded :
          call.result # Null =>
              LET resolving == ResolvingEntries(call)
                  children == call.result.children
              IN /\ Len(children) = Len(resolving)
                 /\ \A i \in 1..Len(resolving) :
                       LET target == ResolvedChild(call, resolving[i].v)
                       IN /\ children[i].name = <<resolving[i].k>>
                          /\ children[i].path = target.path
                          /\ children[i].attributes = target.attributes
                          /\ children[i].children = target.children
    /\ ExampleLoaded => composedRoot = ExampleTree

\* C9 witness: a node with two children-map entries of which only the second
\* resolves, to a node with attributes.
C9_Witness ==
    \E call \in expanded :
        /\ call.result # Null
        /\ Len(NodesGet(compositionNodes, call.path).children) = 2
        /\ Len(call.result.children) = 1
        /\ ResolvedChild(call, NodesGet(compositionNodes, call.path).children[1].v) = Null
        /\ Len(call.result.children[1].attributes) > 0

\* C9, tail case reached: a child placed through a reference with a tail.
C9_TailReached ==
    \E call \in expanded :
        /\ call.result # Null
        /\ \E i \in 1..Len(NodesGet(compositionNodes, call.path).children) :
              LET e == NodesGet(compositionNodes, call.path).children[i]
              IN HasSlash(e.v) /\ ResolvedChild(call, e.v) # Null

\* C9 witness for the example is the state ExampleLoaded itself.
C9_ExampleReached == ExampleLoaded /\ composedRoot = ExampleTree

\* The files are loaded (all of them visible) and a root candidate exists.
ComposedWithRoot ==
    /\ pending = <<>> /\ files # <<>>
    /\ FindRootPaths(compositionNodes) # <<>>

\* C15 as claimed: while a file is visible and a root candidate exists, no
\* dangling, cyclic or tail-failing reference makes the published tree null.
C15_ResolutionFailuresLocal == ComposedWithRoot => composedRoot # Null

\* C15, what holds: the tree is null only when the sole root candidate is an
\* inheritance-only node whose single inherit reference does not resolve.
C15_NullOnlyByDanglingRedirect ==
    (ComposedWithRoot /\ composedRoot = Null) =>
        LET rootPaths == FindRootPaths(compositionNodes)
            rootNode == NodesGet(compositionNodes, rootPaths[1])
        IN /\ Len(rootPaths) = 1
           /\ Len(rootNode.attributes) = 0 /\ Len(rootNode.children) = 0
           /\ Len(InheritPaths(rootNode)) = 1
           /\ NodesGet(compositionNodes, GetHead(InheritPaths(rootNode)[1])) = Null

\* The canonical paths in the order the canonical node table holds them.
CanonicalPaths == [i \in 1..Len(compositionNodes) |-> compositionNodes[i].path]

\* Some canonical node other than the one at `path` refers to `path` by the
\* head of a children or inherits reference.
ReferencedByAnother(path) ==
    \E i \in 1..Len(compositionNodes) :
        /\ compositionNodes[i].path # path
        /\ path \in RefHeads(compositionNodes[i].children)
                      \cup RefHeads(compositionNodes[i].inherits)

\* Some canonical node, the one at `path` included, refers to `path`.
ReferencedByAny(path) ==
    \E i \in 1..Len(compositionNodes) :
        path \in RefHeads(compositionNodes[i].children)
                  \cup RefHeads(compositionNodes[i].inherits)

RootPathSet ==
    {FindRootPaths(compositionNodes)[i] : i \in 1..Len(FindRootPaths(compositionNodes))}

\* C18 as claimed: a canonical path is a root path exactly when no other
\* canonical node refers to it and it has no '/'; a node referred to only by
\* itself is a root path.
C18_RootDetection ==
    \A i \in 1..Len(CanonicalPaths) :
        LET path == CanonicalPaths[i]
        IN path \in RootPathSet <=> (~ReferencedByAnother(path) /\ Len(path) = 1)

\* C18, what holds: a canonical path is a root path exactly when no canonical
\* node at all, itself included, refers to it and it has no '/'.
C18_RootsUnreferencedByAny ==
    \A i \in 1..Len(CanonicalPaths) :
        LET path == CanonicalPaths[i]
        IN path \in RootPathSet <=> (~ReferencedByAny(path) /\ Len(path) = 1)

\* C18, case reached: a node referred to only by itself, with none of the
\* canonical nodes a root path.
C18_SelfReferenceReached ==
    /\ pending = <<>> /\ files # <<>>
    /\ \E i \in 1..Len(CanonicalPaths) :
          ReferencedByAny(CanonicalPaths[i]) /\ ~ReferencedByAnother(CanonicalPaths[i])

RECURSIVE FirstEncounters(_, _)
\* The distinct paths of `entries` in the order of their first entry.
FirstEncounters(entries, seen) ==
    IF entries = <<>> THEN <<>>
    ELSE IF Head(entries).path \in seen THEN FirstEncounters(Tail(entries), seen)
    ELSE <<Head(entries).path>>
         \o FirstEncounters(Tail(entries), seen \cup {Head(entries).path})

\* A root candidate with no attributes, no children and at least one inherit.
InheritsOnly(path) ==
    LET node == NodesGet(compositionNodes, path)
    IN Len(node.attributes) = 0 /\ Len(node.children) = 0 /\ Len(node.inherits) > 0

RECURSIVE ExpansionsOf(_, _)
\* The expansions, each started with no ancestors, that the references
\* `refs` contribute. A reference stands for the subnode its tail addresses in
\* the expansion of its head (byTail) or for the expansion of its head
\* whatever its tail. What does not resolve contributes nothing.
ExpansionsOf(refs, byTail) ==
    IF refs = <<>> THEN <<>>
    ELSE LET head == Returned(GetHead(Head(refs)), <<>>)
             target == IF head = Null \/ ~byTail THEN head
                       ELSE TargetNode(head, Head(refs))
         IN (IF target = Null THEN <<>> ELSE <<target>>)
            \o ExpansionsOf(Tail(refs), byTail)

RECURSIVE RootContributions(_, _)
\* The children the root candidates contribute, in the order given.
RootContributions(rootPaths, byTail) ==
    IF rootPaths = <<>> THEN <<>>
    ELSE (IF InheritsOnly(Head(rootPaths))
          THEN ExpansionsOf(SelectSeq(Values(NodesGet(compositionNodes, Head(rootPaths)).inherits),
                                      Truthy), byTail)
          ELSE <<Returned(Head(rootPaths), <<>>)>>)
         \o RootContributions(Tail(rootPaths), byTail)

\* The root candidates in first-encounter order of the federated entries.
RootCandidatesInOrder ==
    SelectSeq(FirstEncounters(EntriesInOrder(VisibleFiles(files)), {}),
              LAMBDA path : path \in RootPathSet)

\* The published tree is the synthetic root over `children`.
SyntheticRootOver(children) ==
    /\ composedRoot # Null
    /\ composedRoot.name = <<"Root">>
    /\ composedRoot.path = <<"">>
    /\ composedRoot.attributes = <<>>
    /\ composedRoot.children = children

\* C19 as claimed: with more than one root candidate the published root is
\* the synthetic node "Root" whose children are, in first-encounter order of
\* the candidates, the expansion of each candidate or, for an inherits-only
\* candidate, the expansions of its inherited targets in inherits-map order,
\* the target of a reference "head/tail" being the subnode the tail addresses.
C19_MultipleRoots ==
    (pending = <<>> /\ Len(RootCandidatesInOrder) > 1) =>
        SyntheticRootOver(RootContributions(RootCandidatesInOrder, TRUE))

\* C19, what holds: the same with the expansion of the head of each inherits
\* reference of an inherits-only candidate, whatever the tail of the reference.
C19_MultipleRootsByHead ==
    (pending = <<>> /\ Len(RootCandidatesInOrder) > 1) =>
        SyntheticRootOver(RootContributions(RootCandidatesInOrder, FALSE))

\* C19, case reached: two root candidates of which the first only inherits,
\* and two children under the synthetic root.
C19_RedirectAmongRootsReached ==
    /\ pending = <<>>
    /\ Len(RootCandidatesInOrder) = 2
    /\ InheritsOnly(RootCandidatesInOrder[1])
    /\ composedRoot # Null /\ Len(composedRoot.children) = 2
    /\ composedRoot.children[1] # composedRoot.children[2]

-----------------------------------------------------------------------------
(* Claims about multiple inheritance (specification SpecInherit)           *)

\* The nodes the inherits references of an invocation resolved to, in
\* inherits-map order.
InheritedTargets(call) ==
    LET inherits == NodesGet(compositionNodes, call.path).inherits
    IN SelectSeq([i \in 1..Len(inherits) |-> ResolvedChild(call, inherits[i].v)],
                 LAMBDA target : target # Null)

\* The positions of the inherited targets that define attribute k.
TargetsDefining(call, k) ==
    {i \in 1..Len(InheritedTargets(call)) : HasKey(InheritedTargets(call)[i].attributes, k)}

\* The attribute keys an invocation's node does not define itself and at
\* least two of its inherited targets define.
ContestedKeys(call) ==
    {k \in UNION {KeySet(InheritedTargets(call)[i].attributes)
                    : i \in 1..Len(InheritedTargets(call))} :
        /\ ~HasKey(NodesGet(compositionNodes, call.path).attributes, k)
        /\ Cardinality(TargetsDefining(call, k)) >= 2}

\* The composed nodes expandNode returned.
Composed == {call \in expanded : call.result # Null}

\* C20 as claimed: a key the node does not define and several of its
\* inherited targets define has, in the composed node, the value of the first
\* of these targets in inherits-map order.
C20_FirstInheritWins ==
    \A call \in Composed : \A k \in ContestedKeys(call) :
        LET first == CHOOSE i \in TargetsDefining(call, k) :
                        \A j \in TargetsDefining(call, k) : i <= j
        IN GetProp(call.result.attributes, k)
               = GetProp(InheritedTargets(call)[first].attributes, k)

\* C20, what holds: such a key has the value of the last of these targets in
\* inherits-map order.
C20_LastInheritWins ==
    \A call \in Composed : \A k \in ContestedKeys(call) :
        LET last == CHOOSE i \in TargetsDefining(call, k) :
                       \A j \in TargetsDefining(call, k) : j <= i
        IN GetProp(call.result.attributes, k)
               = GetProp(InheritedTargets(call)[last].attributes, k)

\* C20, case reached: two inherited targets with different values for a key
\* the node does not define.
C20_ContestReached ==
    \E call \in Composed : \E k \in ContestedKeys(call) :
        \E i, j \in TargetsDefining(call, k) :
            GetProp(InheritedTargets(call)[i].attributes, k)
                # GetProp(InheritedTargets(call)[j].attributes, k)

-----------------------------------------------------------------------------
(* Claims about getFiles() (specification SpecSnapshot)                    *)

\* The {name, visible, index} values the holder of the returned array reads.
SnapshotRead ==
    [i \in 1..Len(snapshot) |->
        [name |-> snapshot[i].name, visible |-> snapshot[i].visible,
         index |-> snapshot[i].index]]

\* C17 as claimed: the array getFiles() returned keeps the order, the length
\* and the {name, visible, index} values it had when it was returned,
\* whatever calls are made afterwards.
C17_DefensiveCopy == SnapshotRead = snapshotTaken

\* C17, what holds: the returned array keeps its length and the order of the
\* files (by name) it had when it was returned.
C17_OrderAndLengthKept ==
    /\ Len(snapshot) = Len(snapshotTaken)
    /\ \A i \in 1..Len(snapshot) : snapshot[i].name = snapshotTaken[i].name

\* C17, case reached: a returned array of two files of which one has since
\* been removed from the list and the other reads other values.
C17_AliasReached ==
    /\ Len(snapshot) = 2 /\ Len(files) = 1
    /\ \E i \in 1..2 : snapshot[i].listed /\ SnapshotRead[i] # snapshotTaken[i]

-----------------------------------------------------------------------------
(* Claims about getFlattenedAttributes (specification SpecQuery)           *)

\* The merged schema dictionary of the federation: the schemas of the visible
\* files in their order, later files overriding earlier ones.
MergedSchemas == FederateSchemas(<<>>, VisibleFiles(files))

\* C21 as claimed: getFlattenedAttributes(node) returns the attributes of the
\* node annotated by the merged schema dictionary of the visible files;
\* schemas of hidden files have no influence.
C21_UnitsFromVisibleFiles ==
    flattened.asked =>
        flattened.result = FlattenAttributes(flattened.node.attributes, MergedSchemas)

\* The schemas of all the files of the list, hidden ones included, in list
\* order, later files overriding earlier ones.
SchemasOfAllFiles == FederateSchemas(<<>>, files)

\* C21, what holds: the annotation follows the schemas of all the files of
\* the list, hidden ones included.
C21_UnitsFromAllFiles ==
    flattened.asked =>
        flattened.result = FlattenAttributes(flattened.node.attributes, SchemasOfAllFiles)

\* C21, case reached: a call made while a file is hidden whose result carries
\* a unit.
C21_HiddenSchemaReached ==
    /\ flattened.asked
    /\ \E i \in 1..Len(files) : ~files[i].visible
    /\ \E i \in 1..Len(flattened.result) : flattened.result[i].v.unit # ""

-----------------------------------------------------------------------------
(* Claims about the converters (specification SpecUsda)                    *)

\* The def lines of the output, in output order.
DefLines == SelectSeq(usda.lines, LAMBDA line : line.kind = "def")

\* The output starts with the header line, and it has one def line per data
\* entry, none before the header.
HeaderThenOnePrimPerEntry ==
    /\ usda.lines # <<>> /\ usda.lines[1] = HeaderLine
    /\ Len(DefLines) = Len(usda.ifcx.data)

\* C22 as claimed: the output of convertIfcxToUsda starts with the header
\* line "#usda 1.0" followed by one def prim per data entry in input order,
\* and the prim of every entry that carries a usd::usdgeom::mesh attribute has
\* the type UsdGeom:Mesh.
C22_UsdaOutput ==
    usda.called =>
        /\ HeaderThenOnePrimPerEntry
        /\ \A i \in 1..Len(usda.ifcx.data) :
              Carries(usda.ifcx.data[i], "mesh") => DefLines[i].type = "UsdGeom:Mesh"

\* C22, what holds: header and one prim per entry for the three converters;
\* the prim of an entry with a mesh has the type UsdGeom:Mesh in the first
\* definition of convert.js and the type Mesh in the second definition and in
\* ifcx-to-usda.ts.
C22_UsdaOutputByConverter ==
    usda.called =>
        /\ HeaderThenOnePrimPerEntry
        /\ \A i \in 1..Len(usda.ifcx.data) :
              Carries(usda.ifcx.data[i], "mesh") =>
                  DefLines[i].type = IF usda.by = "convert.js:4" THEN "UsdGeom:Mesh"
                                     ELSE "Mesh"

\* C22, case reached: ifcx-to-usda.ts converted an input with a mesh entry
\* and two entries of one path, the second of them renamed twice.
C22_MeshConverted ==
    /\ usda.called /\ usda.by = "ifcx-to-usda.ts"
    /\ \E i \in 1..Len(usda.ifcx.data) : Carries(usda.ifcx.data[i], "mesh")
    /\ \E i \in 1..Len(DefLines) : DefLines[i].name = <<"a", "_", "2">>

\* The prims of the second definition and of ifcx-to-usda.ts have distinct
\* names.
PrimNamesDistinct ==
    (usda.called /\ usda.by # "convert.js:4") =>
        \A i, j \in 1..Len(DefLines) : i # j => DefLines[i].name # DefLines[j].name

-----------------------------------------------------------------------------
(* Claims about references with a tail (specification SpecTail)            *)

\* The first child of `node` named `name`, or Null.
ChildNamed(node, name) ==
    LET named == {i \in 1..Len(node.children) : node.children[i].name = <<name>>}
    IN IF named = {} THEN Null
       ELSE node.children[CHOOSE i \in named : \A j \in named : i <= j]

RECURSIVE DescendByName(_, _)
\* From `node` down by the child names t1, ..., tn; Null when a name matches
\* no child at its level.
DescendByName(node, names) ==
    IF names = <<>> THEN node
    ELSE IF ChildNamed(node, Head(names)) = Null THEN Null
    ELSE DescendByName(ChildNamed(node, Head(names)), Tail(names))

\* What the reference "head/t1/.../tn" of an invocation addresses: the
\* returned expansion of the head, descended by t1, ..., tn.
AddressedBy(call, ref) ==
    LET head == Returned(GetHead(ref), Append(call.visited, call.path))
    IN IF head = Null THEN Null ELSE DescendByName(head, Tail(ref))

RECURSIVE ChildrenAddressed(_, _)
\* The children the children-map entries contribute, in map order.
ChildrenAddressed(call, entries) ==
    IF entries = <<>> THEN <<>>
    ELSE LET target == AddressedBy(call, Head(entries).v)
         IN (IF target = Null THEN <<>>
             ELSE <<[target EXCEPT !.name = <<Head(entries).k>>]>>)
            \o ChildrenAddressed(call, Tail(entries))

RECURSIVE AttributesAddressed(_, _, _)
\* The attributes after the inherit references contributed, in map order.
AttributesAddressed(call, attributes, refs) ==
    IF refs = <<>> THEN attributes
    ELSE LET target == AddressedBy(call, Head(refs))
         IN AttributesAddressed(call,
                IF target = Null THEN attributes
                ELSE MergeInherited(attributes, target.attributes),
                Tail(refs))

\* C24: in every expansion, a reference "head/t1/.../tn" contributes the node
\* reached from the expansion of head by the child names t1, ..., tn, and
\* contributes nothing when head does not expand or a name matches no child.
C24_TailAddressing ==
    \A call \in Composed :
        LET node == NodesGet(compositionNodes, call.path)
        IN /\ call.result.children = ChildrenAddressed(call, node.children)
           /\ call.result.attributes =
                  AttributesAddressed(call, node.attributes, Values(node.inherits))

\* C24 witness: r addresses d through a/W/U, as a child and as an inherit,
\* and the published root holds both contributions.
C24_Witness ==
    /\ composedRoot # Null /\ composedRoot.path = <<"r">>
    /\ Len(composedRoot.children) = 1
    /\ composedRoot.children[1].path = <<"d">>
    /\ composedRoot.children[1].name = <<"X">>
    /\ composedRoot.attributes = <<Prop("c", 1)>>

\* C24, failures reached: the chain a/W exists, and the references a/W/Z
\* (no such child) and c/W (no such head) of r contributed nothing.
C24_FailureReached ==
    /\ composedRoot # Null /\ composedRoot.path = <<"r">>
    /\ \E call \in Composed : call.path = <<"b">>
    /\ \E i \in 1..Len(compositionNodes) :
          /\ compositionNodes[i].path = <<"r">>
          /\ Values(compositionNodes[i].children) = <<<<"a", "W", "Z">>>>
    /\ composedRoot.children = <<>>

-----------------------------------------------------------------------------
(* Claims about a redirected root (specification SpecCompose)              *)

\* The only root candidate has no attributes, no children and exactly one
\* inherit reference, of the form "head/tail".
SoleRedirectInto(ref) ==
    LET rootPaths == FindRootPaths(compositionNodes)
        rootNode == NodesGet(compositionNodes, rootPaths[1])
    IN /\ Len(rootPaths) = 1
       /\ Len(rootNode.attributes) = 0
       /\ Len(rootNode.children) = 0
       /\ Len(rootNode.inherits) = 1
       /\ rootNode.inherits[1].v = ref
       /\ Truthy(ref) /\ HasSlash(ref)

\* The node the reference addresses from an empty chain: the expansion of
\* its head, descended by its tail.
RootTarget(ref) ==
    IF Returned(GetHead(ref), <<>>) = Null THEN Null
    ELSE DescendByName(Returned(GetHead(ref), <<>>), Tail(ref))

\* C26: when the only root candidate is an inherits-only node whose single
\* inherit reference is "head/tail", the published root is the subnode
\* reached by the tail inside the expansion of head.
C26_RedirectFollowsTail ==
    \A ref \in ComposeRefs(<<"r">>) :
        SoleRedirectInto(ref) => composedRoot = RootTarget(ref)

\* C26, as computed: the published root is the expansion of head, whatever
\* the tail.
C26_RedirectUsesHead ==
    \A ref \in ComposeRefs(<<"r">>) :
        SoleRedirectInto(ref) => composedRoot = Returned(GetHead(ref), <<>>)

\* C26, reached: r redirects into a/W, a has the child W, and the published
\* root is a.
C26_TailRedirectReached ==
    /\ SoleRedirectInto(<<"a", "W">>)
    /\ RootTarget(<<"a", "W">>) # Null
    /\ composedRoot # Null /\ composedRoot.path = <<"a">>
    /\ RootTarget(<<"a", "W">>).path = <<"b">>

-----------------------------------------------------------------------------
(* Claims about the shape of the published tree (specification SpecCompose) *)

\* The invocation was cut by the cycle guard.
OnChainOfCall(call) == \E i \in 1..Len(call.visited) : call.visited[i] = call.path

RECURSIVE AncestorChains(_, _)
\* The paths from the top of `node` down to each node of its subtree, `above`
\* being the paths of the nodes over it.
AncestorChains(node, above) ==
    LET chain == Append(above, node.path)
    IN {chain} \cup UNION {AncestorChains(node.children[i], chain)
                              : i \in 1..Len(node.children)}

\* No node of the chain has the non-empty path of a node over it.
NoPathRepeated(chain) ==
    \A i \in 1..Len(chain) : \A j \in (i + 1)..Len(chain) :
        chain[j] # <<"">> => chain[i] # chain[j]

\* C27: in the published tree no node has the non-empty path of one of its
\* proper ancestors, and no chain of ancestors is longer than the number of
\* canonical nodes plus one.
C27_AcyclicAncestorChains ==
    composedRoot # Null =>
        \A chain \in AncestorChains(composedRoot, <<>>) :
            /\ NoPathRepeated(chain)
            /\ Len(chain) <= Len(compositionNodes) + 1

\* C27 witness: a tree published from nodes that refer to themselves or to
\* each other, in which the guard cut an invocation and a child was placed
\* through a tail.
C27_Witness ==
    /\ composedRoot # Null
    /\ \E call \in expanded : call.result = Null /\ OnChainOfCall(call)
    /\ \E call \in Composed :
          \E i \in 1..Len(NodesGet(compositionNodes, call.path).children) :
              LET ref == NodesGet(compositionNodes, call.path).children[i].v
              IN HasSlash(ref) /\ ResolvedChild(call, ref) # Null

\* C27, full depth reached: a chain as long as the number of canonical nodes,
\* in a composition in which the guard cut an invocation.
C27_DeepChainReached ==
    /\ composedRoot # Null
    /\ \E call \in expanded : call.result = Null /\ OnChainOfCall(call)
    /\ \E chain \in AncestorChains(composedRoot, <<>>) :
          Len(chain) = 3 /\ Len(compositionNodes) = 3

-----------------------------------------------------------------------------
(* Claims about compound paths (specification SpecCompound)                *)

\* The canonical nodes whose path contains "/".
CompoundNodes ==
    {compositionNodes[i].path : i \in {j \in 1..Len(compositionNodes) :
                                            HasSlash(compositionNodes[j].path)}}

\* C28: every node of the published tree has a path without "/"; a canonical
\* node whose path contains "/" is no root candidate, is never expanded, and
\* neither its path nor its attribute x is anywhere in the published tree.
C28_CompoundPathsUnreachable ==
    /\ \A i \in 1..Len(FindRootPaths(compositionNodes)) :
          FindRootPaths(compositionNodes)[i] \notin CompoundNodes
    /\ \A call \in expanded : ~HasSlash(call.path)
    /\ composedRoot # Null =>
          \A node \in TreeNodes(composedRoot) :
              /\ ~HasSlash(node.path)
              /\ node.path \notin CompoundNodes
              /\ ~HasKey(node.attributes, "x")

\* C28 witness: there is a canonical node "a/W" with the attribute x, r holds
\* the reference "a/W", and a tree with r and a child W is published.
C28_Witness ==
    /\ composedRoot # Null /\ composedRoot.path = <<"r">>
    /\ <<"a", "W">> \in CompoundNodes
    /\ HasKey(NodesGet(compositionNodes, <<"a", "W">>).attributes, "x")
    /\ Len(composedRoot.children) = 1
    /\ composedRoot.children[1].path = <<"b">>

\* C28, unreferenced compound node reached: "a/W" is referenced by nothing
\* and a tree is published.
C28_UnreferencedReached ==
    /\ composedRoot # Null
    /\ <<"a", "W">> \in CompoundNodes
    /\ \A i \in 1..Len(compositionNodes) :
          /\ compositionNodes[i].children = <<>>
          /\ compositionNodes[i].inherits = <<>>

-----------------------------------------------------------------------------
(* Claims about cycles and shared nodes (specification SpecCycle)          *)

\* The chain of in-progress ancestors below which the references of an
\* invocation are expanded.
ChainOf(call) == Append(call.visited, call.path)

OnChain(chain, path) == \E i \in 1..Len(chain) : chain[i] = path

\* The heads of the truthy values of a reference map.
HeadsOf(map) == {GetHead(map[i].v) : i \in {j \in 1..Len(map) : Truthy(map[j].v)}}

\* The invocation was made by the invocation of its last ancestor.
MadeByParent(call) ==
    \E parent \in Composed :
        /\ ChainOf(parent) = call.visited
        /\ call.path \in HeadsOf(NodesGet(compositionNodes, parent.path).children)
                          \cup HeadsOf(NodesGet(compositionNodes, parent.path).inherits)

\* An invocation returns nothing only for a path on its chain or a path
\* without a canonical node, and its chain is the chain of its ancestors.
DroppedOnlyOnChain ==
    \A call \in expanded :
        /\ call.result = Null <=>
              \/ OnChain(call.visited, call.path)
              \/ NodesGet(compositionNodes, call.path) = Null
        /\ call.visited # <<>> => MadeByParent(call)

\* A child reference to a canonical node off the chain puts its expansion
\* under the referring node, wherever else the node was expanded.
ExpandedUnderEachParent ==
    \A call \in Composed :
        LET children == NodesGet(compositionNodes, call.path).children
        IN \A i \in 1..Len(children) :
              (/\ Len(children[i].v) = 1
               /\ ~OnChain(ChainOf(call), children[i].v)
               /\ NodesGet(compositionNodes, children[i].v) # Null) =>
                  \E j \in 1..Len(call.result.children) :
                      /\ call.result.children[j].name = <<children[i].k>>
                      /\ call.result.children[j].path = children[i].v

\* a inherits only from b, and b only from a.
InheritEachOther(a, b) ==
    /\ NodesGet(compositionNodes, a) # Null /\ NodesGet(compositionNodes, b) # Null
    /\ Values(NodesGet(compositionNodes, a).inherits) = <<b>>
    /\ Values(NodesGet(compositionNodes, b).inherits) = <<a>>

\* In a cycle a -> b -> a entered at a, the expansion of a holds every own
\* attribute of b, and the expansion of b below a holds its own attributes
\* and nothing else.
CycleKeepsFirstLeg ==
    \A call \in Composed : \A b \in {CanonicalPaths[i] : i \in 1..Len(CanonicalPaths)} :
        (b # call.path /\ InheritEachOther(call.path, b)
            /\ ~OnChain(call.visited, b)) =>
            LET own == NodesGet(compositionNodes, b).attributes
            IN /\ \A i \in 1..Len(own) :
                     /\ HasKey(call.result.attributes, own[i].k)
                     /\ GetProp(call.result.attributes, own[i].k) = own[i].v
               /\ Returned(b, ChainOf(call)) # Null
               /\ Returned(b, ChainOf(call)).attributes = own

\* C25: the cycle guard drops a reference only when its head is on the chain
\* of in-progress ancestors; a node referenced from two branches is expanded
\* under both; in a cycle a -> b -> a reached from a root, a receives the own
\* attributes of b and b receives nothing from a.
C25_GuardAbortsBranchOnly ==
    DroppedOnlyOnChain /\ ExpandedUnderEachParent /\ CycleKeepsFirstLeg

\* C25 witness: the root r holds a, a and b inherit from each other, and the
\* a of the published tree has the attributes of b.
C25_Witness ==
    /\ composedRoot # Null /\ composedRoot.path = <<"r">>
    /\ InheritEachOther(<<"a">>, <<"b">>)
    /\ \E i \in 1..Len(composedRoot.children) :
          /\ composedRoot.children[i].path = <<"a">>
          /\ HasKey(composedRoot.children[i].attributes, "h")
    /\ \E call \in expanded :
          call.path = <<"a">> /\ call.visited = <<<<"r">>, <<"a">>, <<"b">>>>
              /\ call.result = Null

\* C25, shared node reached: d is a child of the siblings a and b of r, and
\* is in the published tree under both.
C25_SharedReached ==
    /\ composedRoot # Null /\ composedRoot.path = <<"r">>
    /\ Len(composedRoot.children) = 2
    /\ \A i \in 1..2 :
          /\ Len(composedRoot.children[i].children) = 1
          /\ composedRoot.children[i].children[1].path = <<"d">>
    /\ composedRoot.children[1].path # composedRoot.children[2].path

\* The children-map entry of the invocation's node that has the key `name`.
OwnEntry(call, name) ==
    LET children == NodesGet(compositionNodes, call.path).children
    IN children[CHOOSE i \in 1..Len(children) : <<children[i].k>> = name]

\* C29: the children list of every composed node is no longer than the
\* children map of its canonical node, and each child is what the map entry
\* of its name resolved to; nothing comes from the nodes it inherits from.
C29_InheritsAttributesOnly ==
    \A call \in Composed :
        LET own == NodesGet(compositionNodes, call.path).children
            children == call.result.children
        IN /\ Len(children) <= Len(own)
           /\ \A j \in 1..Len(children) :
                 /\ \E i \in 1..Len(own) : <<own[i].k>> = children[j].name
                 /\ children[j] =
                      [ResolvedChild(call, OwnEntry(call, children[j].name).v)
                          EXCEPT !.name = children[j].name]

\* C29 witness: a, a child of r, has no children map and inherits from b,
\* whose expansion has the child d; the a of the published tree has the
\* attributes of b and no child.
C29_Witness ==
    /\ composedRoot # Null /\ composedRoot.path = <<"r">>
    /\ \E i \in 1..Len(composedRoot.children) :
          /\ composedRoot.children[i].path = <<"a">>
          /\ composedRoot.children[i].children = <<>>
          /\ HasKey(composedRoot.children[i].attributes, "h")
    /\ \E call \in Composed :
          /\ call.path = <<"b">> /\ call.visited = <<<<"r">>, <<"a">>>>
          /\ Len(call.result.children) = 1
          /\ call.result.children[1].path = <<"d">>

-----------------------------------------------------------------------------
(* Claims about a callback that raises (specification SpecObserver)        *)

\* The invocations of onCompositionChanged in the last call.
CompositionEvents == SelectSeq(events, LAMBDA e : e.cb = "onCompositionChanged")

\* The last call recomposed and the callback raised when it was notified.
RaisedWhenNotified == lastOp.ok /\ lastOp.op # "new" /\ observer.first

\* C30: if the composition-changed callback raises while it is notified of a
\* recomposition, it is invoked once for that recomposition and
\* getComposedRoot() is the tree the pipeline builds from the visible files.
C30_ObserverCannotAlterTree ==
    RaisedWhenNotified =>
        /\ Len(CompositionEvents) = 1
        /\ composedRoot = TreeOfVisibleFiles

\* C30, as computed: a callback that raises on the tree is invoked a second
\* time with null, and getComposedRoot() is null; a callback that returns is
\* invoked once, with what getComposedRoot() returns.
C30_RaisingObserverLosesTree ==
    /\ RaisedWhenNotified =>
          /\ composedRoot = Null
          /\ [i \in 1..Len(events) |-> events[i].arg] \in
                 {<<Null>>, <<TreeOfVisibleFiles, Null>>,
                  <<TreeOfVisibleFiles, Null, Null>>}
          /\ CompositionEvents[Len(CompositionEvents)].arg = Null
    /\ (lastOp.ok /\ lastOp.op # "new" /\ ~observer.first) =>
          /\ composedRoot = TreeOfVisibleFiles
          /\ Len(CompositionEvents) = 1
          /\ CompositionEvents[1].arg = composedRoot

\* C30, reached: the pipeline built a tree, the callback raised on it, and
\* getComposedRoot() is null.
C30_TreeLostReached ==
    /\ RaisedWhenNotified
    /\ TreeOfVisibleFiles # Null
    /\ composedRoot = Null
    /\ Len(CompositionEvents) = 2

-----------------------------------------------------------------------------
(* Claims about the wall modeler (specification SpecModeler)               *)

\* The walls the last event created.
WallsCreated == Len(modeler.createdWalls) - Len(gesture.before.createdWalls)

\* C23: while modeling is active a click with no pending start point records
\* it and creates no wall, and a click with a pending start point creates one
\* wall from the start point to the click, notifies once and clears the start
\* point; a click while modeling is inactive changes nothing; stopModeling
\* clears the start point, and none is pending while modeling is inactive, so
\* that the first click after startModeling is a start point.
C23_TwoClickWall ==
    /\ (gesture.event = "click" /\ gesture.before.isModeling
            /\ gesture.before.startPoint = Null) =>
           /\ modeler.startPoint = gesture.point
           /\ WallsCreated = 0 /\ gesture.notified = 0
    /\ (gesture.event = "click" /\ gesture.before.isModeling
            /\ gesture.before.startPoint # Null) =>
           /\ WallsCreated = 1 /\ gesture.notified = 1
           /\ modeler.createdWalls[Len(modeler.createdWalls)].start = gesture.before.startPoint
           /\ modeler.createdWalls[Len(modeler.createdWalls)].end = gesture.point
           /\ modeler.startPoint = Null
    /\ (gesture.event = "click" /\ ~gesture.before.isModeling) =>
           modeler = gesture.before /\ gesture.notified = 0
    /\ gesture.event = "stopModeling" => modeler.startPoint = Null /\ ~modeler.isModeling
    /\ ~modeler.isModeling => modeler.startPoint = Null
    /\ gesture.event = "startModeling" =>
           modeler.isModeling /\ modeler.startPoint = gesture.before.startPoint

\* C23 witness: the second wall was placed by a click, in a modeling mode
\* entered again after a stopModeling.
C23_Witness ==
    /\ gesture.event = "click" /\ gesture.notified = 1
    /\ Len(modeler.createdWalls) = 2
    /\ modeler.createdWalls[1].start # modeler.createdWalls[2].start

\* C23, discard reached: stopModeling was called with a start point pending.
C23_DiscardReached ==
    gesture.event = "stopModeling" /\ gesture.before.startPoint # Null

-----------------------------------------------------------------------------
(* Claims about the recursion (specification SpecExpand)                   *)

\* The expansion nests no deeper than the canonical nodes allow.
StackWithinNodes == Len(stack) <= Len(compositionNodes) + 1

\* C3: for every set of entries, cyclic or self-referencing ones included,
\* the recomposition a mutation triggers terminates and the call returns: a
\* call in progress can always take its next step, never nests deeper than
\* there are canonical nodes, and is over within StepBound steps.
C3_CycleSafety ==
    pc = "expanding" =>
        /\ ENABLED Walk
        /\ StackWithinNodes
        /\ steps <= StepBound(compositionNodes)

\* C3 witness: the call returned from a composition in which a and b inherit
\* from each other and the cycle guard cut the recursion.
C3_Witness ==
    /\ pc = "idle" /\ pending = <<>> /\ files # <<>>
    /\ composedRoot # Null
    /\ \E i, j \in 1..Len(compositionNodes) :
          /\ compositionNodes[i].path = <<"a">>
          /\ compositionNodes[j].path = <<"b">>
          /\ <<"b">> \in RefHeads(compositionNodes[i].inherits)
          /\ <<"a">> \in RefHeads(compositionNodes[j].inherits)

\* The call-by-call expansion publishes what expandNode computes.
WalkAgreesWithExpandNode ==
    (pc = "idle" /\ files # <<>>) => composedRoot = Recompose(files)

=============================================================================
